---- MODULE Spec2Model ----
(***************************************************************************)
(* Verification model of the hallucination auditor's retrieval and         *)
(* verification core: the fetcher of scripts/fetch_url.py (rate limiter,   *)
(* retry loop, content-addressed store), the Find Case Law XML fetcher of  *)
(* scripts/fcl_get_xml.py, the classifier of scripts/verify_claim.py and   *)
(* the per-citation pipeline of api/server.py.                             *)
(*                                                                         *)
(* Time is a discrete clock in milliseconds that advances in ticks of      *)
(* TickMs.  A worker is one thread of control executing calls of           *)
(* fetch_and_cache_url: either a thread of the API server process (entry   *)
(* "server", sharing the module-level _last_fetch_by_source) or the main   *)
(* thread of a fresh `python scripts/fetch_url.py` process (entry "cli",   *)
(* whose module-level map is empty when the call starts and dies with the  *)
(* process).  All calls work on the sources/<job_id> directory of one job. *)
(***************************************************************************)
EXTENDS Integers, Sequences, FiniteSets, TLC

\* ------------------------------------------------------------------ bounds
MaxCalls == 2          \* calls of either fetcher started in one behaviour
MaxRetryCalls == 1     \* calls made when the retry loop is examined
MaxTicks == 6          \* clock horizon, in ticks
TickMs == 500          \* clock granularity, in milliseconds

Workers == {"w1", "w2"}
JobId == "job"

\* ------------------------------------------------------- program constants
max_retries == 3       \* fetch_url.py:144
retry_delay == 1000    \* fetch_url.py:145 (1.0 s, in ms)
cli_rate_limit == 1000 \* fetch_url.py:292 (--rate-limit default)
fcl_max_retries == 3   \* fcl_get_xml.py:37

SOURCE_RATE_LIMITS ==
    [find_case_law |-> 1000, bailii |-> 1000, default |-> 1000]

Sources == {"find_case_law", "bailii", "default"}

\* -------------------------------------------------------------------- URLs
\* A URL is kept as the parts the code looks at: the scheme, the host as its
\* dot-separated labels, and whether the rest contains white space.
HostFcl == <<"caselaw", "nationalarchives", "gov", "uk">>
HostBailii == <<"bailii", "org">>

UrlFcl == [scheme |-> "https", host |-> HostFcl, tail_ws |-> FALSE, id |-> "fcl/uksc/2015/11/data.xml"]
UrlBailii == [scheme |-> "https", host |-> <<"www">> \o HostBailii, tail_ws |-> FALSE, id |-> "bailii/uk/cases/UKSC/2015/11.html"]
UrlOther == [scheme |-> "https", host |-> <<"example", "com">>, tail_ws |-> FALSE, id |-> "example.com/x"]
UrlBad == [scheme |-> "ftp", host |-> HostBailii, tail_ws |-> FALSE, id |-> "ftp://bailii.org/x"]
NoUrl == [scheme |-> "", host |-> <<>>, tail_ws |-> FALSE, id |-> ""]

Urls == {UrlFcl, UrlBailii, UrlOther, UrlBad}

\* `needle in hostname` on whole labels: needle occurs as a contiguous run.
HasRun(needle, host) ==
    \E i \in 0..(Len(host) - Len(needle)) :
        \A k \in 1..Len(needle) : host[i + k] = needle[k]

\* validate_url: http(s) scheme, a dotted domain name, no white space.
validate_url(url) ==
    /\ url.scheme \in {"http", "https"}
    /\ Len(url.host) >= 2
    /\ ~url.tail_ws

detect_source(url) ==
    IF HasRun(HostFcl, url.host) THEN "find_case_law"
    ELSE IF HasRun(HostBailii, url.host) THEN "bailii"
    ELSE "default"

\* ----------------------------------------------------- bodies and hashing
Bodies == {<<1, 2>>, <<2, 1>>}

\* sha256_bytes: a digest of the bytes.  The model's digest is a positional
\* fold, which like SHA-256 on real inputs gives distinct bodies distinct
\* digests.
RECURSIVE Digest(_, _)
Digest(bytes, acc) ==
    IF bytes = <<>> THEN acc
    ELSE Digest(Tail(bytes), acc * 31 + Head(bytes))

\* A digest that sees only the length of the content.
sha256_bytes_LengthOnly(content) == Len(content)

sha256_bytes(content) == Digest(content, 7)

Hashes == {sha256_bytes(b) : b \in Bodies}

\* Content-Type header values the server may send; NoHeader is its absence.
NoHeader == "absent"
ContentTypes == {NoHeader, "application/xml", "text/plain"}

\* The substrings of a Content-Type value that the code tests for.
CtTokens(ct) ==
    CASE ct = "text/html" -> {"html"}
      [] ct = "application/xhtml+xml" -> {"html", "xml"}
      [] ct = "application/xml" -> {"xml"}
      [] ct = "application/json" -> {"json"}
      [] OTHER -> {}

HeaderContentType(hdr) == IF hdr = NoHeader THEN "text/html" ELSE hdr

ExtOf(content_type) ==
    IF "html" \in CtTokens(content_type) THEN ".html"
    ELSE IF "json" \in CtTokens(content_type) THEN ".json"
    ELSE IF "xml" \in CtTokens(content_type) THEN ".xml"
    ELSE ".html"

Exts == {".html", ".json", ".xml"}

\* ---------------------------------------------------------- the file system
\* sources/<job_id>/<name>: a path is <<job, hash, ext, suffix>>.
Suffixes == {"", ".tmp", ".meta.json", ".meta.json.tmp"}
Paths == {<<JobId, h, e, s>> : h \in Hashes, e \in Exts, s \in Suffixes}
NoPath == <<JobId, 0, "", "none">>
Orphan == <<JobId, 0, "", "orphan">>

get_sources_path(job_id, hash, ext) == <<job_id, hash, ext, "">>
TmpOf(path) == <<path[1], path[2], path[3], path[4] \o ".tmp">>
MetaOf(path) == <<path[1], path[2], path[3], path[4] \o ".meta.json">>

Absent == [kind |-> "absent", bytes |-> <<>>, url |-> "", hash |-> 0]
Empty == [kind |-> "empty", bytes |-> <<>>, url |-> "", hash |-> 0]
BytesFile(content) == [kind |-> "bytes", bytes |-> content, url |-> "", hash |-> 0]
JsonFile(url, hash) == [kind |-> "json", bytes |-> <<>>, url |-> url.id, hash |-> hash]

\* open(path, "w"/"wb"): creates the file or truncates the one that is there;
\* the descriptor is on whatever file the path names.
FsOpen(f, path) == [f EXCEPT ![path] = Empty]

\* write through a descriptor: into the file the descriptor is on (which
\* may have been renamed since it was opened, or unlinked).
FsWrite(f, at, data) == IF at \in Paths THEN [f EXCEPT ![at] = data] ELSE f

\* Path.replace: rename over the destination.
FsReplace(f, from, to) == [f EXCEPT ![to] = f[from], ![from] = Absent]

\* Open descriptors follow the file they are on across a rename.
FdAfterReplace(at, from, to) ==
    IF at = from THEN to ELSE IF at = to THEN Orphan ELSE at


\* ------------------------------------------------------------------- state
VARIABLES
    now,                    \* time.time(), in ms
    last_fetch_by_source,   \* fetch_url._last_fetch_by_source of the server process (-1: no entry)
    files,                  \* the files under sources/<job_id>
    frame,                  \* per worker: the locals of its call of fetch_and_cache_url
    log,                    \* the calls that have returned or raised, in order of completion
    calls,                  \* number of calls started
    classified,             \* one application of classify_hallucination_type
    audit,                  \* run_audit_pipeline: the citation in hand and the results so far
    verified,               \* one call of verify_claim_against_authority on texts
    resolution,             \* one call of resolve_citation_to_urls
    batch,                  \* one request to resolve_citations_only
    judgment,               \* one call of a judgment parser
    extracted,              \* one call of extract_text_from_document
    pipeline                \* one run of scripts/orchestrate.py

vars == <<now, last_fetch_by_source, files, frame, log, calls, classified, audit, verified,
          resolution, batch, judgment, extracted, pipeline>>

\* What the remote end does with one GET.
Outcomes == {"200", "404", "429", "500", "Timeout", "RequestException"}

StatusCode(outcome) ==
    CASE outcome = "200" -> 200
      [] outcome = "404" -> 404
      [] outcome = "429" -> 429
      [] outcome = "500" -> 500
      [] OTHER -> 0

IdleFrame ==
    [pc |-> "idle", url |-> NoUrl, entry |-> "", force_refetch |-> FALSE,
     source |-> "", attempt |-> 0, wake |-> 0, content |-> <<>>, header |-> NoHeader,
     fd |-> NoPath, prior |-> 0, t0 |-> -1, gets |-> 0, last_outcome |-> "",
     retried |-> {}, existed |-> FALSE, wrote_body |-> FALSE, wrote_meta |-> FALSE]

\* The record a finished call leaves in the log: its arguments, what it did,
\* and the dict it returned (fetch_status, status_code, content_hash,
\* cache_path) or the exception it raised (exc).
Finished(fetcher, w, fr, fetch_status, status_code, exc, path) ==
    [fetcher |-> fetcher, worker |-> w, url |-> fr.url, entry |-> fr.entry,
     force_refetch |-> fr.force_refetch, source |-> fr.source,
     prior |-> fr.prior, t0 |-> fr.t0, gets |-> fr.gets,
     last_outcome |-> fr.last_outcome, retried |-> fr.retried,
     existed |-> fr.existed, wrote_body |-> fr.wrote_body, wrote_meta |-> fr.wrote_meta,
     body |-> fr.content,
     ext |-> IF fr.content = <<>> THEN ""
             ELSE IF fetcher = "fetch_fcl_document_xml" THEN ".xml"
             ELSE ExtOf(HeaderContentType(fr.header)),
     fetch_status |-> fetch_status, status_code |-> status_code, exc |-> exc,
     content_hash |-> IF path = NoPath THEN 0 ELSE sha256_bytes(fr.content),
     cache_path |-> path]

\* Lines 216-231: the cache path of a 200 response.
CachePath(content, header) ==
    get_sources_path(JobId, sha256_bytes(content), ExtOf(HeaderContentType(header)))

\* ----------------------------------------------- classifier and verifier
Fabricated == "Fabricated Case & Citation"
NoLee == [lee_type |-> "None", lee_type_name |-> "None"]
LeeFabricated == [lee_type |-> "1", lee_type_name |-> Fabricated]
LeeReview == [lee_type |-> "review", lee_type_name |-> "Needs Manual Review"]

\* A classifier that sends a retrieved case in need of review to manual review.
classify_hallucination_type_ReviewCategory(outcome, resolution_status, case_retrieved) ==
    IF outcome = "supported" THEN NoLee
    ELSE IF case_retrieved THEN LeeReview
    ELSE LeeFabricated

\* classify_hallucination_type, verify_claim.py lines 131-161.
classify_hallucination_type(outcome, resolution_status, case_retrieved) ==
    IF outcome = "supported" THEN NoLee
    ELSE IF outcome = "needs_review" /\ case_retrieved THEN NoLee
    ELSE IF ~case_retrieved /\ resolution_status \in {"not_found", "unresolved"}
         THEN LeeFabricated
    ELSE IF case_retrieved /\ outcome \in {"unclear", "contradicted"} THEN LeeReview
    ELSE IF outcome = "unverifiable" /\ ~case_retrieved THEN LeeFabricated
    ELSE NoLee

VerificationOutcomes == {"supported", "needs_review", "unclear", "contradicted", "unverifiable"}
ResolutionStatuses == {"resolved", "unresolvable", "not_found", "unresolved", "ambiguous", "error"}

\* verify_claim_against_authority, verify_claim.py lines 188-241, on what it
\* measures of its inputs: the length of the authority's full text, whether
\* the lower-cased claim occurs in it, the keyword overlap with the full text
\* and the best score among the matching paragraphs (-1: none matched); the
\* ratios are in hundredths.
verify_claim_against_authority(full_text_len, exact, overall_overlap, top_score, resolution_status) ==
    LET case_retrieved == full_text_len > 100
        best == IF top_score > overall_overlap THEN top_score ELSE overall_overlap
        outcome == IF exact THEN "supported"
                   ELSE IF overall_overlap >= 60 \/ top_score >= 60 THEN "supported"
                   ELSE IF overall_overlap >= 30 \/ top_score >= 30 THEN "supported"
                   ELSE "needs_review"
        hallucination == classify_hallucination_type(outcome, resolution_status, case_retrieved)
    IN  [verification_outcome |-> outcome,
         hallucination_type |-> hallucination.lee_type,
         hallucination_type_name |-> hallucination.lee_type_name,
         case_retrieved |-> case_retrieved,
         confidence |-> IF exact THEN 95
                        ELSE IF outcome = "supported" THEN best ELSE overall_overlap,
         method |-> IF exact THEN "exact_match" ELSE "keyword_match"]

IdleClassified ==
    [outcome |-> "", resolution_status |-> "", case_retrieved |-> FALSE,
     done |-> FALSE, result |-> NoLee]

\* run_audit_pipeline, server.py lines 994-1005: what a citation's result
\* holds before anything is retrieved.
CitationDefaults(resolution_status) ==
    [resolution_status |-> resolution_status, fetch |-> "none", parse |-> "none",
     outcome |-> "unverifiable", hallucination_type |-> "1",
     hallucination_type_name |-> Fabricated, case_retrieved |-> FALSE,
     confidence |-> -1]

IdleAudit ==
    [pc |-> "off", web_search_enabled |-> FALSE, cit |-> CitationDefaults(""),
     results |-> <<>>]

IdleVerified == [pc |-> "off"]
IdleResolution == [pc |-> "off"]
IdleBatch == [pc |-> "off"]
IdleJudgment == [pc |-> "off"]
IdleExtracted == [pc |-> "off"]
IdlePipeline == [pc |-> "off"]

\* The parts of the state that belong to the batch resolver, the parsers, the
\* text extractor and the orchestrator, at rest.
InitLater ==
    /\ batch = IdleBatch
    /\ judgment = IdleJudgment
    /\ extracted = IdleExtracted
    /\ pipeline = IdlePipeline

InitFetch ==
    /\ now = 0
    /\ last_fetch_by_source = [s \in Sources |-> -1]
    /\ files = [p \in Paths |-> Absent]
    /\ frame = [w \in Workers |-> IdleFrame]
    /\ log = <<>>
    /\ calls = 0

Init ==
    /\ InitFetch
    /\ classified = IdleClassified
    /\ audit = IdleAudit
    /\ verified = IdleVerified
    /\ resolution = IdleResolution
    /\ InitLater

\* The clock advances.
Tick ==
    /\ now + TickMs <= MaxTicks * TickMs
    /\ now' = now + TickMs
    /\ UNCHANGED <<last_fetch_by_source, files, frame, log, calls, classified, audit, verified, resolution, batch, judgment, extracted, pipeline>>

\* rate_limit_ms as the caller passes it: the API callers pass nothing, the
\* CLI passes --rate-limit (default 1000).  0 stands for None.
RateLimitArg(entry) == IF entry = "cli" THEN cli_rate_limit ELSE 0

\* rate_limit_wait, lines 80-93: how long to sleep given the last recorded
\* fetch of the source (-1: none) and the time read at line 89.
SleepMs(source, rate_limit_arg, last_fetch, t) ==
    LET rate_limit_ms == IF rate_limit_arg = 0 THEN SOURCE_RATE_LIMITS[source]
                         ELSE rate_limit_arg
        elapsed_ms == t - last_fetch
    IN  IF last_fetch # -1 /\ elapsed_ms < rate_limit_ms
        THEN rate_limit_ms - elapsed_ms
        ELSE 0

\* A call returns (or raises): the frame is popped and the call is logged.
Return(w, rec) ==
    /\ log' = Append(log, rec)
    /\ frame' = [frame EXCEPT ![w] = IdleFrame]

\* fetch_and_cache_url, lines 126-140 and rate_limit_wait up to its sleep:
\* validate the URL, detect the source, read the limiter state and the clock.
Call(w, url, entry, force_refetch) ==
    /\ frame[w].pc = "idle"
    /\ calls < MaxCalls
    /\ calls' = calls + 1
    /\ LET fr0 == [IdleFrame EXCEPT !.url = url, !.entry = entry,
                                    !.force_refetch = force_refetch,
                                    !.prior = Len(log)]
       IN  IF ~validate_url(url)
           THEN /\ log' = Append(log, Finished("fetch_and_cache_url", w, fr0, "", 0, "ValueError", NoPath))
                /\ UNCHANGED frame
           ELSE LET source == detect_source(url)
                    last_fetch == IF entry = "server" THEN last_fetch_by_source[source] ELSE -1
                    sleep_ms == SleepMs(source, RateLimitArg(entry), last_fetch, now)
                IN  /\ frame' = [frame EXCEPT ![w] =
                            [fr0 EXCEPT !.pc = "rate_limit_wait", !.source = source,
                                        !.wake = now + sleep_ms]]
                    /\ UNCHANGED log
    /\ UNCHANGED <<now, last_fetch_by_source, files, classified, audit, verified, resolution, batch, judgment, extracted, pipeline>>

\* rate_limit_wait, line 96, once the sleep (if any) is over: record the time
\* of this fetch and proceed to the first GET.
RateLimitProceed(w) ==
    /\ frame[w].pc = "rate_limit_wait"
    /\ now >= frame[w].wake
    /\ last_fetch_by_source' =
         IF frame[w].entry = "server"
         THEN [last_fetch_by_source EXCEPT ![frame[w].source] = now]
         ELSE last_fetch_by_source
    /\ frame' = [frame EXCEPT ![w].pc = "get", ![w].t0 = now, ![w].wake = now]
    /\ UNCHANGED <<now, files, log, calls, classified, audit, verified, resolution, batch, judgment, extracted, pipeline>>

\* A retry policy that retries every failure, once more than allowed.
ShouldRetry_AnyFailure(outcome, attempt) ==
    /\ outcome # "200"
    /\ attempt < max_retries

\* Lines 170-175 and 186-204: is the attempt (0-based) retried after this outcome?
ShouldRetry(outcome, attempt) ==
    /\ outcome \in {"429", "Timeout", "RequestException"}
    /\ attempt < max_retries - 1

\* Lines 172 and 189/203: the sleep before the next attempt.
RetrySleepMs(outcome, attempt) ==
    IF outcome = "429" THEN retry_delay * (2 ^ attempt) ELSE retry_delay

\* A status mapping that reports every failure as error.
FailureStatus_AlwaysError(outcome) == "error"

\* Lines 161-212: the fetch_status of a call that ends on this outcome.
FailureStatus(outcome) ==
    CASE outcome = "404" -> "not_found"
      [] outcome = "Timeout" -> "timeout"
      [] OTHER -> "error"

\* One iteration of the retry loop, lines 147-212, and for a 200 the lines up
\* to the existence check of line 233.
HttpGet(w, outcome, content, header) ==
    LET fr == frame[w]
        fr1 == [fr EXCEPT !.gets = fr.gets + 1, !.last_outcome = outcome]
    IN
    /\ fr.pc = "get"
    /\ now >= fr.wake
    /\ outcome = "200" => content \in Bodies
    /\ IF outcome = "200"
       THEN LET cache_path == CachePath(content, header)
                fr2 == [fr1 EXCEPT !.content = content, !.header = header,
                                   !.existed = (files[cache_path].kind # "absent")]
            IN  IF fr2.existed /\ ~fr.force_refetch
                THEN Return(w, Finished("fetch_and_cache_url", w, fr2, "cached", 200, "", cache_path))
                ELSE /\ frame' = [frame EXCEPT ![w] = [fr2 EXCEPT !.pc = "write_bytes_open"]]
                     /\ UNCHANGED log
       ELSE /\ content = <<>>
            /\ header = NoHeader
            /\ IF ShouldRetry(outcome, fr.attempt)
               THEN /\ frame' = [frame EXCEPT ![w] =
                           [fr1 EXCEPT !.attempt = fr.attempt + 1,
                                       !.retried = fr.retried \cup {outcome},
                                       !.wake = now + RetrySleepMs(outcome, fr.attempt)]]
                    /\ UNCHANGED log
               ELSE Return(w, Finished("fetch_and_cache_url", w, fr1, FailureStatus(outcome),
                                       StatusCode(outcome), "", NoPath))
    /\ UNCHANGED <<now, last_fetch_by_source, files, calls, classified, audit, verified, resolution, batch, judgment, extracted, pipeline>>


\* A rename moves the file every open descriptor on it is on.
FramesAfterReplace(fs, from, to) ==
    [x \in Workers |-> [fs[x] EXCEPT !.fd = FdAfterReplace(fs[x].fd, from, to)]]

\* safe_write_bytes(cache_path, content), line 124: open the temp file.
WriteBytesOpen(w) ==
    LET fr == frame[w]
        temp_path == TmpOf(CachePath(fr.content, fr.header))
    IN
    /\ fr.pc = "write_bytes_open"
    /\ files' = FsOpen(files, temp_path)
    /\ frame' = [frame EXCEPT ![w].pc = "write_bytes_write", ![w].fd = temp_path]
    /\ UNCHANGED <<now, last_fetch_by_source, log, calls, classified, audit, verified, resolution, batch, judgment, extracted, pipeline>>

\* safe_write_bytes, line 125 and the end of the with block: write and close.
WriteBytesWrite(w) ==
    LET fr == frame[w] IN
    /\ fr.pc = "write_bytes_write"
    /\ files' = FsWrite(files, fr.fd, BytesFile(fr.content))
    /\ frame' = [frame EXCEPT ![w].pc = "write_bytes_replace", ![w].fd = NoPath]
    /\ UNCHANGED <<now, last_fetch_by_source, log, calls, classified, audit, verified, resolution, batch, judgment, extracted, pipeline>>

\* safe_write_bytes, line 128: rename the temp file over the cache path.  A
\* missing temp file raises FileNotFoundError, which line 277 re-raises.
WriteBytesReplace(w) ==
    LET fr == frame[w]
        cache_path == CachePath(fr.content, fr.header)
        temp_path == TmpOf(cache_path)
    IN
    /\ fr.pc = "write_bytes_replace"
    /\ IF files[temp_path].kind = "absent"
       THEN /\ Return(w, Finished("fetch_and_cache_url", w, fr, "", 0, "Exception", NoPath))
            /\ UNCHANGED files
       ELSE /\ files' = FsReplace(files, temp_path, cache_path)
            /\ frame' = [FramesAfterReplace(frame, temp_path, cache_path)
                            EXCEPT ![w].pc = "write_json_open", ![w].wrote_body = TRUE]
            /\ UNCHANGED log
    /\ UNCHANGED <<now, last_fetch_by_source, calls, classified, audit, verified, resolution, batch, judgment, extracted, pipeline>>

\* safe_write_json(meta_path, metadata), line 102: open the temp file.
WriteJsonOpen(w) ==
    LET fr == frame[w]
        temp_path == TmpOf(MetaOf(CachePath(fr.content, fr.header)))
    IN
    /\ fr.pc = "write_json_open"
    /\ files' = FsOpen(files, temp_path)
    /\ frame' = [frame EXCEPT ![w].pc = "write_json_write", ![w].fd = temp_path]
    /\ UNCHANGED <<now, last_fetch_by_source, log, calls, classified, audit, verified, resolution, batch, judgment, extracted, pipeline>>

\* safe_write_json, line 103 and the end of the with block.
WriteJsonWrite(w) ==
    LET fr == frame[w] IN
    /\ fr.pc = "write_json_write"
    /\ files' = FsWrite(files, fr.fd, JsonFile(fr.url, sha256_bytes(fr.content)))
    /\ frame' = [frame EXCEPT ![w].pc = "write_json_replace", ![w].fd = NoPath]
    /\ UNCHANGED <<now, last_fetch_by_source, log, calls, classified, audit, verified, resolution, batch, judgment, extracted, pipeline>>

\* safe_write_json, line 106, and the return of the metadata (line 275).
WriteJsonReplace(w) ==
    LET fr == frame[w]
        cache_path == CachePath(fr.content, fr.header)
        meta_path == MetaOf(cache_path)
        temp_path == TmpOf(meta_path)
    IN
    /\ fr.pc = "write_json_replace"
    /\ IF files[temp_path].kind = "absent"
       THEN /\ Return(w, Finished("fetch_and_cache_url", w, fr, "", 0, "Exception", NoPath))
            /\ UNCHANGED files
       ELSE /\ files' = FsReplace(files, temp_path, meta_path)
            /\ log' = Append(log, Finished("fetch_and_cache_url", w,
                                           [fr EXCEPT !.wrote_meta = TRUE],
                                           "success", 200, "", cache_path))
            /\ frame' = [FramesAfterReplace(frame, temp_path, meta_path) EXCEPT ![w] = IdleFrame]
    /\ UNCHANGED <<now, last_fetch_by_source, calls, classified, audit, verified, resolution, batch, judgment, extracted, pipeline>>

\* fetch_fcl_document_xml retries these outcomes (lines 113-116, 175-180).
FclRetried == {"429", "Timeout", "RequestException"}

\* fetch_fcl_document_xml, lines 104-124 and 183-189: the fetch_status of a
\* call whose last GET had this outcome.
FclStatus(outcome) ==
    CASE outcome = "200" -> "success"
      [] outcome = "404" -> "not_found"
      [] outcome \in FclRetried -> "failed"
      [] OTHER -> "http_error"

\* fetch_fcl_document_xml (scripts/fcl_get_xml.py), run as its own process:
\* n GETs, the first n - 1 of them with the retried outcome `before`, the
\* last with outcome `final`.  On a 200 the body is written straight to
\* <hash>.xml (line 133) and the metadata through safe_write_json (line 156).
FetchFclDocumentXml(n, before, final, content) ==
    LET cache_path == get_sources_path(JobId, sha256_bytes(content), ".xml")
        meta_path == MetaOf(cache_path)
        ok == final = "200"
        fr == [IdleFrame EXCEPT !.url = UrlFcl, !.entry = "cli",
                                !.source = "find_case_law", !.prior = Len(log),
                                !.gets = n, !.last_outcome = final,
                                !.retried = IF n > 1 THEN {before} ELSE {},
                                !.content = IF ok THEN content ELSE <<>>,
                                !.existed = ok /\ files[cache_path].kind # "absent",
                                !.wrote_body = ok, !.wrote_meta = ok]
    IN
    /\ calls < MaxCalls
    /\ calls' = calls + 1
    /\ n \in 1..fcl_max_retries
    /\ before \in FclRetried
    /\ n = 1 => before = "429"
    /\ final \in FclRetried => n = fcl_max_retries
    /\ ~ok => content = <<1, 2>>
    /\ log' = Append(log, Finished("fetch_fcl_document_xml", "cli", fr, FclStatus(final),
                                   StatusCode(final), "",
                                   IF ok THEN cache_path ELSE NoPath))
    /\ IF ok
       THEN /\ files' = FsReplace(FsWrite(FsOpen(FsWrite(files, cache_path, BytesFile(content)),
                                                 TmpOf(meta_path)),
                                          TmpOf(meta_path), JsonFile(UrlFcl, sha256_bytes(content))),
                                  TmpOf(meta_path), meta_path)
            /\ frame' = FramesAfterReplace(frame, TmpOf(meta_path), meta_path)
       ELSE UNCHANGED <<files, frame>>
    /\ UNCHANGED <<now, last_fetch_by_source, classified, audit, verified, resolution, batch, judgment, extracted, pipeline>>

Entries == {"server", "cli"}

\* The retry loop: one thread of control making MaxRetryCalls calls, from the
\* server or as a CLI process, on any URL, while the clock runs and the remote
\* end answers each GET as it likes; every 200 carries the same body and no
\* Content-Type.
NextRetry ==
    \/ Tick
    \/ \E url \in Urls, entry \in Entries :
          calls < MaxRetryCalls /\ Call("w1", url, entry, FALSE)
    \/ RateLimitProceed("w1")
    \/ \E outcome \in Outcomes :
          HttpGet("w1", outcome, IF outcome = "200" THEN <<1, 2>> ELSE <<>>, NoHeader)
    \/ WriteBytesOpen("w1")
    \/ WriteBytesWrite("w1")
    \/ WriteBytesReplace("w1")
    \/ WriteJsonOpen("w1")
    \/ WriteJsonWrite("w1")
    \/ WriteJsonReplace("w1")

SpecRetry == Init /\ [][NextRetry]_vars

\* The rate limiter: server threads and CLI processes fetching from the two
\* archives while the clock runs; the remote end answers 200 (one body, no
\* Content-Type) or 404.
NextRate ==
    \/ Tick
    \/ \E w \in Workers, url \in {UrlFcl, UrlBailii}, entry \in Entries :
          Call(w, url, entry, FALSE)
    \/ \E w \in Workers : RateLimitProceed(w)
    \/ \E w \in Workers, outcome \in {"200", "404"} :
          HttpGet(w, outcome, IF outcome = "200" THEN <<1, 2>> ELSE <<>>, NoHeader)
    \/ \E w \in Workers : WriteBytesOpen(w)
    \/ \E w \in Workers : WriteBytesWrite(w)
    \/ \E w \in Workers : WriteBytesReplace(w)
    \/ \E w \in Workers : WriteJsonOpen(w)
    \/ \E w \in Workers : WriteJsonWrite(w)
    \/ \E w \in Workers : WriteJsonReplace(w)

SpecRate == Init /\ [][NextRate]_vars

\* The content-addressed store: CLI processes of both fetchers working on one
\* job, with any body and an absent or XML Content-Type in a 200 (or a 404),
\* forced or not.  A second process is started only while the first is
\* running: two processes are interchangeable, so this loses no interleaving.
\* No process sleeps here (a fresh process has no limiter entry and a 404 is
\* not retried), so the clock is left alone.
NextStore ==
    \/ \E url \in {UrlFcl, UrlBailii}, force_refetch \in BOOLEAN :
          Call("w1", url, "cli", force_refetch)
    \/ \E url \in {UrlFcl, UrlBailii} :
          frame["w1"].pc # "idle" /\ Call("w2", url, "cli", FALSE)
    \/ \E w \in Workers : RateLimitProceed(w)
    \/ \E w \in Workers, content \in Bodies, header \in {NoHeader, "application/xml"} :
          HttpGet(w, "200", content, header)
    \/ HttpGet("w1", "404", <<>>, NoHeader)
    \/ \E w \in Workers : WriteBytesOpen(w)
    \/ \E w \in Workers : WriteBytesWrite(w)
    \/ \E w \in Workers : WriteBytesReplace(w)
    \/ \E w \in Workers : WriteJsonOpen(w)
    \/ \E w \in Workers : WriteJsonWrite(w)
    \/ \E w \in Workers : WriteJsonReplace(w)
    \/ \E final \in {"200", "404"}, content \in Bodies :
          FetchFclDocumentXml(1, "429", final, content)

SpecStore == Init /\ [][NextStore]_vars


\* ---------------------------------------------------------- the classifier
fetchVars == <<now, last_fetch_by_source, files, frame, log, calls>>

InitClassify ==
    /\ InitFetch
    /\ audit = IdleAudit
    /\ verified = IdleVerified
    /\ resolution = IdleResolution
    /\ InitLater
    /\ \E outcome \in VerificationOutcomes, resolution_status \in ResolutionStatuses,
          case_retrieved \in BOOLEAN :
          classified = [IdleClassified EXCEPT !.outcome = outcome,
                                              !.resolution_status = resolution_status,
                                              !.case_retrieved = case_retrieved]

Classify ==
    /\ ~classified.done
    /\ classified' = [classified EXCEPT
                         !.done = TRUE,
                         !.result = classify_hallucination_type(classified.outcome,
                                        classified.resolution_status,
                                        classified.case_retrieved)]
    /\ UNCHANGED <<fetchVars, audit, verified, resolution, batch, judgment, extracted, pipeline>>

NextClassify == Classify

SpecClassify == InitClassify /\ [][NextClassify]_vars

\* -------------------------------------------------- run_audit_pipeline
MaxCitations == 2      \* citations audited in one behaviour

\* What fetch_and_cache_url hands its caller: a fetch_status, or an exception.
FetchReturns ==
    {"success", "cached"} \cup {FailureStatus(o) : o \in Outcomes \ {"200"}} \cup {"raised"}

InitAudit ==
    /\ InitFetch
    /\ classified = IdleClassified
    /\ verified = IdleVerified
    /\ resolution = IdleResolution
    /\ InitLater
    /\ \E web_search_enabled \in BOOLEAN :
          audit = [IdleAudit EXCEPT !.pc = "resolve",
                                    !.web_search_enabled = web_search_enabled]

\* Lines 987-1029: resolve the citation and set the defaults.  The resolver
\* answers "resolved" with candidates or "unresolvable" with none
\* (public_resolve.py lines 922-929).
AuditResolve(resolution_status) ==
    /\ audit.pc = "resolve"
    /\ Len(audit.results) < MaxCitations
    /\ audit' = [audit EXCEPT
                    !.cit = CitationDefaults(resolution_status),
                    !.pc = IF resolution_status = "resolved" THEN "fetch"
                           ELSE IF audit.web_search_enabled THEN "web_search"
                           ELSE "append"]
    /\ UNCHANGED <<fetchVars, classified, verified, resolution, batch, judgment, extracted, pipeline>>

\* Lines 1077-1082: the except branch.
AuditExcept(cit) ==
    [cit EXCEPT !.outcome = "unverifiable", !.hallucination_type = "1",
                !.hallucination_type_name = Fabricated]

\* Lines 1038-1043: fetch the first candidate.
AuditFetch(fetch_result) ==
    /\ audit.pc = "fetch"
    /\ LET cit == [audit.cit EXCEPT !.fetch = fetch_result]
       IN  audit' = [audit EXCEPT
                        !.cit = IF fetch_result = "raised" THEN AuditExcept(cit) ELSE cit,
                        !.pc = IF fetch_result \in {"success", "cached"} THEN "parse"
                               ELSE "append"]
    /\ UNCHANGED <<fetchVars, classified, verified, resolution, batch, judgment, extracted, pipeline>>

\* Lines 1047-1056: parse the cached body; full_text is empty, at most 100
\* characters, or longer, or the parser raises.
AuditParse(parsed) ==
    /\ audit.pc = "parse"
    /\ LET cit == [audit.cit EXCEPT !.parse = parsed]
       IN  audit' = [audit EXCEPT
                        !.cit = IF parsed = "raised" THEN AuditExcept(cit)
                                ELSE IF parsed = "empty" THEN cit
                                ELSE [cit EXCEPT !.case_retrieved = TRUE],
                        !.pc = IF parsed \in {"short", "long"} THEN "verify" ELSE "append"]
    /\ UNCHANGED <<fetchVars, classified, verified, resolution, batch, judgment, extracted, pipeline>>

\* Lines 1058-1075: verify the claim against the parsed authority.
AuditVerify(exact, overall_overlap, top_score) ==
    /\ audit.pc = "verify"
    /\ LET verification ==
               verify_claim_against_authority(
                   IF audit.cit.parse = "long" THEN 500 ELSE 50,
                   exact, overall_overlap, top_score, audit.cit.resolution_status)
       IN  audit' = [audit EXCEPT
                        !.cit = [audit.cit EXCEPT
                                    !.outcome = verification.verification_outcome,
                                    !.hallucination_type = verification.hallucination_type,
                                    !.hallucination_type_name = verification.hallucination_type_name,
                                    !.case_retrieved = verification.case_retrieved,
                                    !.confidence = verification.confidence],
                        !.pc = "append"]
    /\ UNCHANGED <<fetchVars, classified, verified, resolution, batch, judgment, extracted, pipeline>>

\* Lines 1085-1105: the web search fallback of an unresolved citation.
AuditWebSearch(found) ==
    /\ audit.pc = "web_search"
    /\ audit' = [audit EXCEPT
                    !.cit = IF found
                            THEN [audit.cit EXCEPT !.case_retrieved = TRUE,
                                                   !.outcome = "needs_review",
                                                   !.hallucination_type = "None",
                                                   !.hallucination_type_name = "None",
                                                   !.confidence = 50]
                            ELSE audit.cit,
                    !.pc = "append"]
    /\ UNCHANGED <<fetchVars, classified, verified, resolution, batch, judgment, extracted, pipeline>>

\* Lines 1107-1124: the citation's result joins the results.
AuditAppend ==
    /\ audit.pc = "append"
    /\ audit' = [audit EXCEPT !.results = Append(audit.results, audit.cit),
                              !.pc = "resolve"]
    /\ UNCHANGED <<fetchVars, classified, verified, resolution, batch, judgment, extracted, pipeline>>

Overlaps == {0, 25, 45, 70}

NextAudit ==
    \/ \E resolution_status \in {"resolved", "unresolvable"} : AuditResolve(resolution_status)
    \/ \E fetch_result \in FetchReturns : AuditFetch(fetch_result)
    \/ \E parsed \in {"raised", "empty", "short", "long"} : AuditParse(parsed)
    \/ \E exact \in BOOLEAN, overall_overlap \in Overlaps, top_score \in Overlaps \cup {-1} :
          AuditVerify(exact, overall_overlap, top_score)
    \/ \E found \in BOOLEAN : AuditWebSearch(found)
    \/ AuditAppend

SpecAudit == InitAudit /\ [][NextAudit]_vars


\* ------------------------------------- verify_claim_against_authority on texts
MaxClaimWords == 6     \* words of the claim sentence a claim may span
MaxTextWords == 2      \* words in the authority's full text
MaxParagraphs == 4     \* paragraphs of the parsed authority

\* A text is a sequence of characters; the characters are the letters of the
\* words below and the space.
FillerLen == 101
Spell ==
    [Duty |-> <<"D", "u", "t", "y">>,
     duty |-> <<"d", "u", "t", "y">>,
     of   |-> <<"o", "f">>,
     care |-> <<"c", "a", "r", "e">>,
     that |-> <<"t", "h", "a", "t">>,
     owed |-> <<"o", "w", "e", "d">>,
     harm |-> <<"h", "a", "r", "m">>,
     risk |-> <<"r", "i", "s", "k">>,
     filler |-> [i \in 1..FillerLen |-> "z"]]

RECURSIVE Join(_)
Join(words) ==
    IF words = <<>> THEN <<>>
    ELSE IF Len(words) = 1 THEN Spell[words[1]]
    ELSE Spell[words[1]] \o <<" ">> \o Join(Tail(words))

\* str.lower()
LowerChar(c) == IF c = "D" THEN "d" ELSE c
lower(text) == [i \in 1..Len(text) |-> LowerChar(text[i])]

\* A containment test that only looks at the start of hay.
Contains_AtStart(needle, hay) ==
    /\ Len(needle) <= Len(hay)
    /\ \A k \in 1..Len(needle) : hay[k] = needle[k]

\* needle in hay
Contains(needle, hay) ==
    \E i \in 0..(Len(hay) - Len(needle)) :
        \A k \in 1..Len(needle) : hay[i + k] = needle[k]

IsAlpha(c) == c # " "

\* The last position of the run of letters that starts at position i.
RECURSIVE RunEnd(_, _)
RunEnd(t, i) ==
    IF i = Len(t) \/ ~IsAlpha(t[i + 1]) THEN i ELSE RunEnd(t, i + 1)

\* extract_keywords, lines 34-56: the maximal runs of at least min_length
\* letters of the lower-cased text, less the stop words.
min_length == 4
stop_words == {Spell["that"]}
extract_keywords(text) ==
    LET t == lower(text)
        n == Len(t)
        starts == {i \in 1..n : IsAlpha(t[i]) /\ (i = 1 \/ ~IsAlpha(t[i - 1]))}
        words == {SubSeq(t, i, RunEnd(t, i)) : i \in starts}
    IN  {w \in words : Len(w) >= min_length} \ stop_words

\* calculate_keyword_overlap, lines 70-77: the ratio as numerator and
\* denominator (0.0 is 0/1).
calculate_keyword_overlap(claim_text, authority_text) ==
    LET claim_keywords == extract_keywords(claim_text)
        authority_keywords == extract_keywords(authority_text)
    IN  IF claim_keywords = {} THEN [num |-> 0, den |-> 1]
        ELSE [num |-> Cardinality(claim_keywords \cap authority_keywords),
              den |-> Cardinality(claim_keywords)]

\* ratio >= h / 100
AtLeast(ratio, h) == ratio.num * 100 >= h * ratio.den

\* round(ratio, 2), in hundredths.  No ratio of at most MaxClaimWords + 1
\* keywords lies half way between two hundredths.
round2(ratio) == (200 * ratio.num + ratio.den) \div (2 * ratio.den)

\* para_text[:200] + "..." if len(para_text) > 200 else para_text
Shown(para_text) ==
    IF Len(para_text) > 200 THEN SubSeq(para_text, 1, 200) \o <<".", ".", ".">>
    ELSE para_text

\* matches.sort(key=similarity_score, reverse=True): stable, descending.
RECURSIVE SortMatches(_)
InsertMatch(m, sorted) ==
    LET before == {i \in 1..Len(sorted) : sorted[i].similarity_score >= m.similarity_score}
        k == Cardinality(before)
    IN  SubSeq(sorted, 1, k) \o <<m>> \o SubSeq(sorted, k + 1, Len(sorted))
SortMatches(matches) ==
    IF matches = <<>> THEN <<>>
    ELSE InsertMatch(matches[Len(matches)],
                     SortMatches(SubSeq(matches, 1, Len(matches) - 1)))

\* find_matching_paragraphs, lines 94-113; threshold in hundredths.
RECURSIVE CollectMatches(_, _, _)
CollectMatches(claim_text, paragraphs, threshold) ==
    IF paragraphs = <<>> THEN <<>>
    ELSE LET para_text == Head(paragraphs)
             overlap == calculate_keyword_overlap(claim_text, para_text)
             rest == CollectMatches(claim_text, Tail(paragraphs), threshold)
         IN  IF AtLeast(overlap, threshold)
             THEN <<[text |-> Shown(para_text),
                     similarity_score |-> round2(overlap),
                     match_type |-> IF AtLeast(overlap, 60) THEN "keyword" ELSE "partial"]>>
                  \o rest
             ELSE rest
find_matching_paragraphs(claim_text, paragraphs, threshold) ==
    SortMatches(CollectMatches(claim_text, paragraphs, threshold))

Max2(a, b) == IF a >= b THEN a ELSE b

\* verify_claim_against_authority, lines 188-260, on the texts themselves;
\* parsed_authority holds full_text and the texts of its paragraphs, the
\* threshold, the scores and the confidence are in hundredths, and
\* keyword_overlap is -1 where the result has none.
verify_claim_against_authority_text(claim_text, parsed_authority, matching_threshold, resolution_status) ==
    LET full_text == parsed_authority.full_text
        paragraphs == parsed_authority.paragraphs
        case_retrieved == full_text # <<>> /\ Len(full_text) > 100
    IN  IF Contains(lower(claim_text), lower(full_text))
        THEN LET hallucination ==
                     classify_hallucination_type("supported", resolution_status, case_retrieved)
             IN  [case_retrieved |-> case_retrieved,
                  verification_outcome |-> "supported",
                  hallucination_type |-> hallucination.lee_type,
                  hallucination_type_name |-> hallucination.lee_type_name,
                  matching_paragraphs |-> <<>>,
                  confidence |-> 95,
                  method |-> "exact_match",
                  keyword_overlap |-> -1,
                  notes |-> "Claim text found exactly in authority"]
        ELSE LET overall_overlap == calculate_keyword_overlap(claim_text, full_text)
                 matching_paras ==
                     find_matching_paragraphs(claim_text, paragraphs, matching_threshold)
                 top == IF matching_paras # <<>> THEN matching_paras[1].similarity_score ELSE 0
                 strong == AtLeast(overall_overlap, 60) \/ (matching_paras # <<>> /\ top >= 60)
                 moderate == AtLeast(overall_overlap, 30) \/ (matching_paras # <<>> /\ top >= 30)
                 outcome == IF strong \/ moderate THEN "supported" ELSE "needs_review"
                 confidence == IF strong \/ moderate
                               THEN Max2(round2(overall_overlap), top)
                               ELSE round2(overall_overlap)
                 hallucination ==
                     classify_hallucination_type(outcome, resolution_status, case_retrieved)
             IN  [case_retrieved |-> case_retrieved,
                  verification_outcome |-> outcome,
                  hallucination_type |-> hallucination.lee_type,
                  hallucination_type_name |-> hallucination.lee_type_name,
                  matching_paragraphs |-> SubSeq(matching_paras, 1,
                                                 IF Len(matching_paras) < 3
                                                 THEN Len(matching_paras) ELSE 3),
                  confidence |-> confidence,
                  method |-> "keyword_match",
                  keyword_overlap |-> round2(overall_overlap),
                  notes |-> IF strong
                            THEN "Strong keyword overlap with authority - likely supported"
                            ELSE IF moderate
                            THEN "Moderate keyword overlap - appears supported but review recommended"
                            ELSE "Case retrieved but low keyword match - manual review required"]

\* The inputs: a claim is a stretch of the claim sentence from its first or
\* second word (or empty), the
\* full text is a few words, each paragraph is one of two texts.
ClaimSentence == <<"of", "Duty", "care", "that", "owed", "harm", "risk">>
ClaimTexts == {Join(SubSeq(ClaimSentence, i, n)) : i \in 1..2, n \in 0..MaxClaimWords}
TextWords == {"duty", "of", "filler"}
FullTexts ==
    {Join(ws) : ws \in UNION {[1..n -> TextWords] : n \in 0..MaxTextWords}}
ParaTexts == {Join(<<"duty">>), Join(<<"care", "owed", "harm">>)}
ParagraphLists == UNION {[1..n -> ParaTexts] : n \in 0..MaxParagraphs}

\* matching_threshold as the callers leave it: the API pipeline passes none
\* (default 0.2, line 168), the CLI passes --threshold (default 0.3, line 278).
api_matching_threshold == 20
cli_matching_threshold == 30
MatchingThreshold(entry) ==
    IF entry = "api" THEN api_matching_threshold ELSE cli_matching_threshold

NoVerification ==
    [case_retrieved |-> FALSE, verification_outcome |-> "", hallucination_type |-> "None",
     hallucination_type_name |-> "None", matching_paragraphs |-> <<>>, confidence |-> -1,
     method |-> "", keyword_overlap |-> -1, notes |-> ""]

InitVerify ==
    /\ InitFetch
    /\ classified = IdleClassified
    /\ audit = IdleAudit
    /\ resolution = IdleResolution
    /\ InitLater
    /\ \E entry \in {"api", "cli"}, claim_text \in ClaimTexts, full_text \in FullTexts,
          paragraphs \in ParagraphLists :
          verified = [pc |-> "call", entry |-> entry, claim_text |-> claim_text,
                      parsed_authority |-> [full_text |-> full_text,
                                            paragraphs |-> paragraphs],
                      result |-> NoVerification]

\* One call of the verifier, from run_audit_pipeline (server.py lines
\* 1059-1064) or from the CLI (verify_claim.py lines 289-294); both leave the
\* resolution status at "resolved".
Verify ==
    /\ verified.pc = "call"
    /\ verified' = [verified EXCEPT
                       !.pc = "done",
                       !.result = verify_claim_against_authority_text(
                                      verified.claim_text, verified.parsed_authority,
                                      MatchingThreshold(verified.entry), "resolved")]
    /\ UNCHANGED <<fetchVars, classified, audit, resolution, batch, judgment, extracted, pipeline>>

NextVerify == Verify

SpecVerify == InitVerify /\ [][NextVerify]_vars


\* =================================================== scripts/public_resolve.py
\* A URL is the record of its host and of the three parts the archives' path
\* templates are filled with: the court path, the year and the case number.
BailiiHost == "www.bailii.org"
FclHost == "caselaw.nationalarchives.gov.uk"
ForeignHost == "example.org"

Url(host, court, year, num) == [host |-> host, court |-> court, year |-> year, num |-> num]

\* BAILII_NEUTRAL_PATTERNS, lines 38-107: dialect |-> court path of the
\* url_template https://www.bailii.org/<court path>/{year}/{num}.html.
BAILII_NEUTRAL_PATTERNS ==
    [uksc |-> "uk/cases/UKSC", ukpc |-> "uk/cases/UKPC", ukhl |-> "uk/cases/UKHL",
     ewca_civ |-> "ew/cases/EWCA/Civ", ewca_crim |-> "ew/cases/EWCA/Crim",
     ewhc_admin |-> "ew/cases/EWHC/Admin", ewhc_ch |-> "ew/cases/EWHC/Ch",
     ewhc_qb |-> "ew/cases/EWHC/QB", ewhc_kb |-> "ew/cases/EWHC/KB",
     ewhc_fam |-> "ew/cases/EWHC/Fam", ewhc_tcc |-> "ew/cases/EWHC/TCC",
     ewhc_comm |-> "ew/cases/EWHC/Comm", ewhc_pat |-> "ew/cases/EWHC/Patents",
     ukut_iac |-> "uk/cases/UKUT/IAC", ukut_lc |-> "uk/cases/UKUT/LC",
     ukftt_tc |-> "uk/cases/UKFTT/TC", eat |-> "uk/cases/UKEAT"]

\* FCL_NEUTRAL_PATTERNS, lines 110-187: dialect |-> court path of the
\* url_template https://caselaw.nationalarchives.gov.uk/<court path>/{year}/{num}/data.xml.
FCL_NEUTRAL_PATTERNS ==
    [uksc |-> "uksc", ukpc |-> "ukpc", ukhl |-> "ukhl",
     ewca_civ |-> "ewca/civ", ewca_crim |-> "ewca/crim",
     ewhc_admin |-> "ewhc/admin", ewhc_ch |-> "ewhc/ch",
     ewhc_qb |-> "ewhc/qb", ewhc_kb |-> "ewhc/kb",
     ewhc_fam |-> "ewhc/fam", ewhc_tcc |-> "ewhc/tcc",
     ewhc_comm |-> "ewhc/comm", ewhc_pat |-> "ewhc/pat",
     ukut_iac |-> "ukut/iac", ukut_lc |-> "ukut/lc", ukut_tcc |-> "ukut/tcc",
     ukftt_tc |-> "ukftt/tc", ukftt_grc |-> "ukftt/grc", eat |-> "eat"]

\* TRADITIONAL_REPORT_PATTERNS, lines 193-218: the reporter abbreviations.
TRADITIONAL_REPORT_PATTERNS ==
    {"AC", "QB", "KB", "Ch", "WLR", "All ER", "Fam", "ICR", "IRLR", "BCLC",
     "Cr App R", "Lloyd's Rep", "P&CR"}

\* A citation text is represented by what the resolver's regular expressions
\* find in it: the neutral dialect ("none" if no neutral pattern matches), the
\* reporter abbreviation ("none" if no report pattern matches), the bracketed
\* year (0 if there is none), the case number, whether a case name is supplied
\* or extracted (lines 892-896) and whether search terms can be derived from
\* the case name or from an "X v Y" stretch of the text (lines 790-798).
Candidate(url, source, confidence, resolution_method) ==
    [url |-> url, source |-> source, confidence |-> confidence,
     resolution_method |-> resolution_method]

\* try_bailii_neutral_citation_patterns, lines 261-283; a result is a
\* sequence of no or one candidate, confidences are in hundredths.
try_bailii_neutral_citation_patterns(citation) ==
    IF citation.neutral \in DOMAIN BAILII_NEUTRAL_PATTERNS
    THEN <<Candidate(Url(BailiiHost, BAILII_NEUTRAL_PATTERNS[citation.neutral],
                         citation.year, citation.num),
                     "bailii", 95, "bailii_neutral_citation_direct")>>
    ELSE <<>>

\* try_fcl_neutral_citation_patterns, lines 286-308.
try_fcl_neutral_citation_patterns(citation) ==
    IF citation.neutral \in DOMAIN FCL_NEUTRAL_PATTERNS
    THEN <<Candidate(Url(FclHost, FCL_NEUTRAL_PATTERNS[citation.neutral],
                         citation.year, citation.num),
                     "find_case_law", 90, "fcl_neutral_citation_direct")>>
    ELSE <<>>

\* try_neutral_citation_patterns, lines 311-328.
try_neutral_citation_patterns(citation) ==
    LET bailii_result == try_bailii_neutral_citation_patterns(citation)
        fcl_result == try_fcl_neutral_citation_patterns(citation)
    IN  IF bailii_result # <<>> THEN bailii_result
        ELSE IF fcl_result # <<>> THEN fcl_result
        ELSE <<>>

\* is_traditional_citation, lines 331-336.
is_traditional_citation(citation) == citation.reporter \in TRADITIONAL_REPORT_PATTERNS

\* resolve_traditional_citation, lines 790-802: are there search terms.
has_search_terms_Always(citation) == TRUE
has_search_terms(citation) == citation.search_terms

\* try_bailii_direct_url, lines 441-489: detected_report and courts_to_try[:3]
\* as <<court, jurisdiction>> pairs.
courts_to_try(citation) ==
    LET report == citation.reporter
        recent == citation.year >= 2009
    IN  IF report = "AC"
        THEN IF recent THEN <<<<"UKSC", "uk">>, <<"UKHL", "uk">>>> ELSE <<<<"UKHL", "uk">>>>
        ELSE IF report \in {"QB", "KB"}
        THEN <<<<"EWHC/QB", "ew">>, <<"EWHC/Admin", "ew">>, <<"EWCA/Civ", "ew">>>>
        ELSE IF report = "Ch" THEN <<<<"EWHC/Ch", "ew">>, <<"EWCA/Civ", "ew">>>>
        ELSE IF report = "Fam" THEN <<<<"EWHC/Fam", "ew">>, <<"EWCA/Civ", "ew">>>>
        ELSE IF recent
        THEN <<<<"UKSC", "uk">>, <<"EWCA/Civ", "ew">>, <<"EWHC/QB", "ew">>>>
        ELSE <<<<"UKHL", "uk">>, <<"EWCA/Civ", "ew">>, <<"EWHC/QB", "ew">>>>

\* The court path f"{jurisdiction}/cases/{court}" of line 501, for the courts
\* of courts_to_try.
ProbePath(pair) ==
    IF pair = <<"UKSC", "uk">> THEN "uk/cases/UKSC"
    ELSE IF pair = <<"UKHL", "uk">> THEN "uk/cases/UKHL"
    ELSE IF pair = <<"EWCA/Civ", "ew">> THEN "ew/cases/EWCA/Civ"
    ELSE IF pair = <<"EWHC/QB", "ew">> THEN "ew/cases/EWHC/QB"
    ELSE IF pair = <<"EWHC/Admin", "ew">> THEN "ew/cases/EWHC/Admin"
    ELSE IF pair = <<"EWHC/Ch", "ew">> THEN "ew/cases/EWHC/Ch"
    ELSE "ew/cases/EWHC/Fam"

\* candidates.sort(key=confidence, reverse=True), line 858: stable.
InsertCandidate(c, sorted) ==
    LET before == {i \in 1..Len(sorted) : sorted[i].confidence >= c.confidence}
        k == Cardinality(before)
    IN  SubSeq(sorted, 1, k) \o <<c>> \o SubSeq(sorted, k + 1, Len(sorted))
RECURSIVE SortCandidates(_)
SortCandidates(candidates) ==
    IF candidates = <<>> THEN <<>>
    ELSE InsertCandidate(candidates[Len(candidates)],
                         SortCandidates(SubSeq(candidates, 1, Len(candidates) - 1)))

\* resolve_citation_to_urls, lines 912-916: append the candidates whose URL is
\* not yet in candidate_urls.
AppendNew_All(candidate_urls, traditional_candidates) ==
    candidate_urls \o traditional_candidates
RECURSIVE AppendNew(_, _)
AppendNew(candidate_urls, traditional_candidates) ==
    IF traditional_candidates = <<>> THEN candidate_urls
    ELSE LET candidate == Head(traditional_candidates)
             existing_urls == {candidate_urls[i].url : i \in DOMAIN candidate_urls}
         IN  AppendNew(IF candidate.url \notin existing_urls
                       THEN Append(candidate_urls, candidate)
                       ELSE candidate_urls,
                       Tail(traditional_candidates))

\* resolve_citation_to_urls, lines 921-930.
ResolutionStatus(candidate_urls) ==
    IF Len(candidate_urls) = 0 THEN "unresolvable" ELSE "resolved"

\* resolve_traditional_citation, lines 811-818: every result of search_bailii
\* becomes a candidate of source bailii and method bailii_search.
BailiiCandidate(url, confidence) == Candidate(url, "bailii", confidence, "bailii_search")

\* search_bailii, lines 734-739: a scraped href is made absolute; an href
\* written with a host is kept as it is.  A relative href has host "".
FullUrl(href) == IF href.host = "" THEN [href EXCEPT !.host = BailiiHost] ELSE href

\* search_bailii, lines 730-762: at most five results are collected.
RECURSIVE ScrapedResults(_)
ScrapedResults(links) ==
    IF links = <<>> THEN <<>>
    ELSE LET earlier == ScrapedResults(SubSeq(links, 1, Len(links) - 1))
         IN  IF Len(earlier) >= 5 THEN earlier
             ELSE Append(earlier, BailiiCandidate(FullUrl(links[Len(links)]), 75))

\* search_fcl_by_query, lines 400-412: the URL of a feed entry is the href of
\* its XML link if it has one, else the data.xml URL built from its uri.
EntryUrl(entry) ==
    IF entry.xml_link # <<>> THEN entry.xml_link[1]
    ELSE Url(FclHost, entry.uri.court, entry.uri.year, entry.uri.num)

\* resolve_traditional_citation, lines 826-855: filter and grade feed entries.
RECURSIVE FclCandidates(_, _)
FclCandidates(citation, fcl_results) ==
    IF fcl_results = <<>> THEN <<>>
    ELSE LET result == Head(fcl_results)
             rest == FclCandidates(citation, Tail(fcl_results))
             confidence == IF citation.year # 0
                           THEN IF result.year_match /\ result.terms_match THEN 85
                                ELSE IF result.year_match \/ result.terms_match THEN 70
                                ELSE 0
                           ELSE 65
         IN  IF confidence = 0 THEN rest
             ELSE <<Candidate(EntryUrl(result), "find_case_law", confidence, "fcl_search")>>
                  \o rest

\* ---- inputs
MaxResults == 2        \* links in a search page, entries in a feed

SampleYear == 2020
SampleNum == 12

Dialects == DOMAIN BAILII_NEUTRAL_PATTERNS \cup DOMAIN FCL_NEUTRAL_PATTERNS

Citations ==
    {c \in [neutral : Dialects \cup {"none"}, reporter : {"none", "AC"},
            year : {0, SampleYear}, num : {SampleNum},
            case_name : BOOLEAN, search_terms : BOOLEAN] :
        (c.neutral # "none" \/ c.reporter # "none") => c.year # 0}

NoCitation ==
    [neutral |-> "none", reporter |-> "none", year |-> 0, num |-> 0,
     case_name |-> FALSE, search_terms |-> FALSE]

\* What the archives can answer: case pages of the secondary archive (one of
\* them the page of [SampleYear] UKSC SampleNum), a document of the primary
\* archive, and pages of a host that is neither.
CasePaths == {<<"uk/cases/UKSC", SampleNum>>, <<"uk/cases/UKHL", 1>>}
FinderUrls ==
    {Url(host, p[1], SampleYear, p[2]) : host \in {BailiiHost, ForeignHost}, p \in CasePaths}
Hrefs ==
    {Url(host, p[1], SampleYear, p[2]) : host \in {"", BailiiHost, ForeignHost},
                                         p \in CasePaths}
FeedEntries ==
    [xml_link : {<<>>, <<Url(FclHost, "uksc", SampleYear, SampleNum)>>,
                 <<Url(ForeignHost, "uksc", SampleYear, SampleNum)>>},
     uri : {[court |-> "uksc", year |-> SampleYear, num |-> SampleNum]},
     year_match : BOOLEAN, terms_match : BOOLEAN]

UpTo(S, n) == UNION {[1..k -> S] : k \in 0..n}

\* try_bailii_direct_url: up to three courts (line 497), case numbers
\* range(1, 20) (line 499).
max_courts == 3        \* public_resolve.py:497
last_case_num == 19    \* public_resolve.py:499

IdleResolve ==
    [pc |-> "idle", citation |-> NoCitation, candidate_urls |-> <<>>,
     traditional_candidates |-> <<>>, invoked |-> <<>>, resolution_status |-> "",
     court_index |-> 0, case_num |-> 0, probes |-> 0, unresponsive |-> TRUE]

InitResolve ==
    /\ InitFetch
    /\ classified = IdleClassified
    /\ audit = IdleAudit
    /\ verified = IdleVerified
    /\ resolution = IdleResolve
    /\ InitLater

\* The end of resolve_traditional_citation (line 858) and of
\* resolve_citation_to_urls (lines 912-945) once the search has produced
\* its candidates.
Returned(r, candidates) ==
    LET traditional_candidates == SortCandidates(candidates)
        candidate_urls == AppendNew(r.candidate_urls, traditional_candidates)
    IN  [r EXCEPT !.pc = "done",
                  !.traditional_candidates = traditional_candidates,
                  !.candidate_urls = candidate_urls,
                  !.resolution_status = ResolutionStatus(candidate_urls)]

Invoked(r, strategy, returned) ==
    [r EXCEPT !.invoked = Append(@, [strategy |-> strategy, returned |-> returned])]

\* resolve_traditional_citation, lines 820-823: Find Case Law is searched
\* only if BAILII gave no candidate.
AfterBailii_AlwaysFallback(r, bailii_results) == [r EXCEPT !.pc = "fcl_search"]
AfterBailii(r, bailii_results) ==
    IF bailii_results # <<>> THEN Returned(r, bailii_results)
    ELSE [r EXCEPT !.pc = "fcl_search"]

\* resolve_citation_to_urls up to its first request: templating (lines
\* 898-903), the decision to search (line 906) and the search terms of
\* resolve_traditional_citation (lines 790-802).
ResolveCitation(citation) ==
    /\ resolution.pc = "idle"
    /\ LET neutral_result == try_neutral_citation_patterns(citation)
           started == [IdleResolve EXCEPT !.citation = citation,
                                          !.candidate_urls = neutral_result]
       IN  resolution' =
               IF neutral_result = <<>> \/ is_traditional_citation(citation)
               THEN IF has_search_terms(citation)
                    THEN [started EXCEPT !.pc = "citation_finder"]
                    ELSE Returned(started, <<>>)
               ELSE [started EXCEPT !.pc = "done",
                                    !.resolution_status = ResolutionStatus(neutral_result)]
    /\ UNCHANGED <<fetchVars, classified, audit, verified, batch, judgment, extracted, pipeline>>

\* search_bailii after strategy 0, lines 683-690: a hit of the citation
\* finder is returned at once; else probing starts if there is a case name and
\* a year, else the title search.
AfterFinder(r, answer) ==
    IF answer # <<>> THEN Returned(r, <<BailiiCandidate(answer[1], 95)>>)
    ELSE IF r.citation.case_name /\ r.citation.year # 0
    THEN [r EXCEPT !.pc = "probe_head", !.court_index = 1, !.case_num = 1]
    ELSE [r EXCEPT !.pc = "bailii_search"]

\* search_bailii strategy 0 (lines 681-686) with try_bailii_citation_finder
\* (lines 593-659): the answer is the final URL of the redirect, or nothing
\* (search form echoed, status other than 200).
CitationFinderReply(answer) ==
    /\ resolution.pc = "citation_finder"
    /\ resolution' = AfterFinder(
                         Invoked([resolution EXCEPT !.unresponsive = FALSE],
                                 "citation_finder", Len(answer)),
                         answer)
    /\ UNCHANGED <<fetchVars, classified, audit, verified, batch, judgment, extracted, pipeline>>

\* try_bailii_citation_finder, lines 619-625 and 657-659: the POST carries
\* timeout=timeout; the time-out is an exception, caught, and the finder
\* returns None.
CitationFinderTimeout ==
    /\ resolution.pc = "citation_finder"
    /\ resolution' = AfterFinder(Invoked(resolution, "citation_finder", 0), <<>>)
    /\ UNCHANGED <<fetchVars, classified, audit, verified, batch, judgment, extracted, pipeline>>

\* try_bailii_direct_url, line 497: courts_to_try[:3].
ProbedCourts(citation) ==
    LET courts == courts_to_try(citation)
    IN  SubSeq(courts, 1, IF Len(courts) < max_courts THEN Len(courts) ELSE max_courts)

\* try_bailii_direct_url, lines 497-499 and 551: the next case number, the
\* next court, or None after the last court (search_bailii then goes on to
\* its title search, line 695).
NextProbe_Unbounded(r) == [r EXCEPT !.pc = "probe_head", !.case_num = @ + 1]
NextProbe(r) ==
    IF r.case_num < last_case_num
    THEN [r EXCEPT !.pc = "probe_head", !.case_num = @ + 1]
    ELSE IF r.court_index < Len(ProbedCourts(r.citation))
    THEN [r EXCEPT !.pc = "probe_head", !.court_index = @ + 1, !.case_num = 1]
    ELSE [Invoked(r, "direct_url", 0) EXCEPT !.pc = "bailii_search"]

\* try_bailii_direct_url, lines 503-511 and 547-548: requests.head with
\* timeout=3; on 200 the page is fetched, on another status or an exception
\* (time-out included) the loop continues.
ProbeHead(reply) ==
    /\ resolution.pc = "probe_head"
    /\ LET r == [resolution EXCEPT !.probes = @ + 1,
                                   !.unresponsive = @ /\ reply = "timeout"]
       IN  resolution' = IF reply = "200" THEN [r EXCEPT !.pc = "probe_get"]
                         ELSE NextProbe(r)
    /\ UNCHANGED <<fetchVars, classified, audit, verified, batch, judgment, extracted, pipeline>>

\* try_bailii_direct_url, lines 512-548: requests.get with timeout=timeout;
\* the page is the case if it answers 200 and names enough search terms, and
\* then the probed URL is returned with confidence 0.85 (search_bailii lines
\* 691-693 return it at once); otherwise the loop continues.
ProbeGet(reply) ==
    /\ resolution.pc = "probe_get"
    /\ LET r == [resolution EXCEPT !.unresponsive = @ /\ reply = "timeout"]
           court == ProbedCourts(r.citation)[r.court_index]
       IN  resolution' =
               IF reply = "match"
               THEN Returned(Invoked(r, "direct_url", 1),
                             <<BailiiCandidate(Url(BailiiHost, ProbePath(court),
                                                   r.citation.year, r.case_num), 85)>>)
               ELSE NextProbe(r)
    /\ UNCHANGED <<fetchVars, classified, audit, verified, batch, judgment, extracted, pipeline>>

\* search_bailii strategy 2 (lines 695-772): links are the hrefs of the
\* search page that have the shape of a case URL and pass the year and
\* navigation filters; none on a status other than 200.
BailiiSearchReply(links) ==
    /\ resolution.pc = "bailii_search"
    /\ LET results == ScrapedResults(links)
           r == Invoked([resolution EXCEPT !.unresponsive = FALSE],
                        "bailii_search", Len(results))
       IN  resolution' = AfterBailii(r, results)
    /\ UNCHANGED <<fetchVars, classified, audit, verified, batch, judgment, extracted, pipeline>>

\* search_bailii, lines 714-719 and 770-772: the POST carries
\* timeout=timeout; the time-out is caught and the empty list returned.
BailiiSearchTimeout ==
    /\ resolution.pc = "bailii_search"
    /\ resolution' = AfterBailii(Invoked(resolution, "bailii_search", 0), <<>>)
    /\ UNCHANGED <<fetchVars, classified, audit, verified, batch, judgment, extracted, pipeline>>

\* resolve_traditional_citation, lines 820-855, with search_fcl_by_query
\* (lines 339-419): fcl_results are the entries of the Atom feed; none on a
\* status other than 200.
FclSearchReply(fcl_results) ==
    /\ resolution.pc = "fcl_search"
    /\ LET candidates == FclCandidates(resolution.citation, fcl_results)
           r == Invoked([resolution EXCEPT !.unresponsive = FALSE],
                        "fcl_search", Len(candidates))
       IN  resolution' = Returned(r, candidates)
    /\ UNCHANGED <<fetchVars, classified, audit, verified, batch, judgment, extracted, pipeline>>

\* search_fcl_by_query, lines 367-384 and 417-419: both GETs carry
\* timeout=timeout; the time-out is caught and the empty list returned.
FclSearchTimeout ==
    /\ resolution.pc = "fcl_search"
    /\ resolution' = Returned(Invoked(resolution, "fcl_search", 0), <<>>)
    /\ UNCHANGED <<fetchVars, classified, audit, verified, batch, judgment, extracted, pipeline>>

NextResolve ==
    \/ \E citation \in Citations : ResolveCitation(citation)
    \/ \E answer \in UpTo(FinderUrls, 1) : CitationFinderReply(answer)
    \/ CitationFinderTimeout
    \/ \E reply \in {"200", "404", "timeout"} : ProbeHead(reply)
    \/ \E reply \in {"match", "nomatch", "timeout"} : ProbeGet(reply)
    \/ \E links \in UpTo(Hrefs, MaxResults) : BailiiSearchReply(links)
    \/ BailiiSearchTimeout
    \/ \E fcl_results \in UpTo(FeedEntries, MaxResults) : FclSearchReply(fcl_results)
    \/ FclSearchTimeout

SpecResolve == InitResolve /\ [][NextResolve]_vars

\* Every request answers or times out: a pending step of the resolver is
\* eventually taken.
FairSpecResolve == SpecResolve /\ WF_vars(NextResolve)


\* ============================================ api/server.py, resolution API
\* A citation string is a sequence of characters; " " is white space.
RECURSIVE lstrip(_)
lstrip(text) == IF text # <<>> /\ Head(text) = " " THEN lstrip(Tail(text)) ELSE text
RECURSIVE rstrip(_)
rstrip(text) ==
    IF text # <<>> /\ text[Len(text)] = " " THEN rstrip(SubSeq(text, 1, Len(text) - 1))
    ELSE text
\* str.strip(), server.py lines 1391 and 1398.
strip_Identity(text) == text
strip(text) == rstrip(lstrip(text))

\* resolve_citations_only, lines 1385-1408: the entries of
\* citations_with_context are taken as they come, the plain citations only if
\* they are not empty and not yet in the list.
CtxEntries(citations_with_context) ==
    [i \in DOMAIN citations_with_context |->
        [citation |-> strip(citations_with_context[i]), with_context |-> TRUE]]
\* The plain citations that are appended are those that, once stripped, are
\* not empty, not among the entries with context and not a repetition of an
\* earlier plain citation; they are appended in their order.
AddPlain(citations_to_process, citations) ==
    LET existing == {citations_to_process[i].citation : i \in DOMAIN citations_to_process}
        kept == {i \in DOMAIN citations :
                    /\ strip(citations[i]) # <<>>
                    /\ strip(citations[i]) \notin existing
                    /\ \A j \in 1..(i - 1) : strip(citations[j]) # strip(citations[i])}
        nth(k) == CHOOSE i \in kept : Cardinality({j \in kept : j < i}) = k - 1
    IN  citations_to_process \o
        [k \in 1..Cardinality(kept) |->
            [citation |-> strip(citations[nth(k)]), with_context |-> FALSE]]
CitationsToProcess(request) ==
    AddPlain(CtxEntries(request.citations_with_context), request.citations)

\* resolve_citations_only, line 1421.
pool_cap == 10         \* server.py:1421
max_workers_Uncapped(num_citations) == num_citations
max_workers(num_citations) == IF num_citations < pool_cap THEN num_citations ELSE pool_cap

\* What happens to a citation inside resolve_single_citation:
\*   resolve_raises  resolve_citation_to_urls raises
\*   unresolvable    it returns without a candidate
\*   fetch_raises    ensure_cache_dir or fetch_and_cache_url raises
\*   fetch_error     fetch_and_cache_url returns a result without cache_path
\*   parse_raises    parse_authority_document raises
\*   ok              the judgment is fetched and parsed
Fates == {"resolve_raises", "unresolvable", "fetch_raises", "fetch_error", "parse_raises", "ok"}

\* ResolvedCitation, lines 1255-1263; url "" and error "" stand for None,
\* paragraphs is the number of paragraphs returned.
ResolvedCitation(citation, source_type, url, paragraphs, error) ==
    [citation |-> citation, source_type |-> source_type, url |-> url,
     paragraphs |-> paragraphs, error |-> error]

\* resolve_single_citation, lines 1272-1366.
resolve_single_citation(ctx, fate) ==
    IF ctx.citation = <<>>
    THEN ResolvedCitation(<<>>, "not_found", "", 0, "Empty citation")
    ELSE IF fate = "resolve_raises"
    THEN ResolvedCitation(ctx.citation, "not_found", "", 0, "exception")
    ELSE IF fate = "unresolvable"
    THEN ResolvedCitation(ctx.citation, "not_found", "", 0,
                          "Citation could not be resolved to a URL")
    ELSE IF fate \in {"fetch_raises", "fetch_error", "parse_raises"}
    THEN ResolvedCitation(ctx.citation, "bailii", "url", 0, "")
    ELSE ResolvedCitation(ctx.citation, "bailii", "url", 1, "")

\* asyncio.gather(*futures), line 1437: the results in the order of the
\* futures.
gather_Reversed(futures) ==
    [i \in DOMAIN futures |-> futures[Len(futures) + 1 - i].result]
gather(futures) == [i \in DOMAIN futures |-> futures[i].result]

\* resolve_citations_only, lines 1440-1443.
Summary(num_citations, resolved_citations) ==
    LET found == Cardinality({i \in DOMAIN resolved_citations :
                                  resolved_citations[i].source_type # "not_found"})
    IN  [total |-> num_citations, found |-> found,
         not_found |-> Len(resolved_citations) - found]

\* ---- inputs
MaxBatch == 2          \* entries in each of the two lists of a request
MaxPoolCitations == 11 \* citations of a request that fills the pool

RawCitations == {<<" ">>, <<"A">>, <<" ", "B", " ">>}
Letters == <<"a", "b", "c", "d", "e", "f", "g", "h", "i", "j", "k", "l">>

NoResult == ResolvedCitation(<<>>, "", "", 0, "")

NewBatch(request, world) ==
    [pc |-> "request", request |-> request, world |-> world,
     citations_to_process |-> <<>>, max_workers |-> 0, futures |-> <<>>,
     overtaken |-> FALSE, resolved |-> <<>>,
     summary |-> [total |-> 0, found |-> 0, not_found |-> 0]]

InitOthersBatch ==
    /\ InitFetch
    /\ classified = IdleClassified
    /\ audit = IdleAudit
    /\ verified = IdleVerified
    /\ resolution = IdleResolution
    /\ judgment = IdleJudgment
    /\ extracted = IdleExtracted
    /\ pipeline = IdlePipeline

\* Requests of a few citations with all their fates.
InitBatch ==
    /\ InitOthersBatch
    /\ \E citations \in UpTo(RawCitations, MaxBatch),
          citations_with_context \in UpTo({<<" ">>, <<"A", " ">>}, MaxBatch),
          fate \in Fates :
       LET world == [c \in {<<"A">>, <<"B">>} |-> IF c = <<"A">> THEN fate ELSE "ok"] IN
          batch = NewBatch([citations |-> citations,
                            citations_with_context |-> citations_with_context], world)

\* Requests of up to MaxPoolCitations different citations, all found.
InitPool ==
    /\ InitOthersBatch
    /\ \E n \in 1..MaxPoolCitations :
          batch = NewBatch([citations |-> [i \in 1..n |-> <<Letters[i]>>],
                            citations_with_context |-> <<>>],
                           [c \in {<<Letters[i]>> : i \in 1..n} |-> "ok"])

Running == {i \in DOMAIN batch.futures : batch.futures[i].state = "running"}
Queued == {i \in DOMAIN batch.futures : batch.futures[i].state = "queued"}

\* resolve_citations_only, lines 1385-1434: the list is built, the pool is
\* created and every task submitted; an empty list is answered at once.
Receive ==
    /\ batch.pc = "request"
    /\ LET citations_to_process == CitationsToProcess(batch.request)
           num_citations == Len(citations_to_process)
       IN  batch' =
               IF num_citations = 0
               THEN [batch EXCEPT !.pc = "done"]
               ELSE [batch EXCEPT
                        !.pc = "running",
                        !.citations_to_process = citations_to_process,
                        !.max_workers = max_workers(num_citations),
                        !.futures = [i \in 1..num_citations |->
                                        [state |-> "queued", result |-> NoResult]]]
    /\ UNCHANGED <<fetchVars, classified, audit, verified, resolution, judgment, extracted, pipeline>>

\* ThreadPoolExecutor: a free worker thread takes the oldest queued task.
StartTask ==
    /\ batch.pc = "running"
    /\ Queued # {}
    /\ Cardinality(Running) < batch.max_workers
    /\ LET i == CHOOSE q \in Queued : \A o \in Queued : q <= o
       IN  batch' = [batch EXCEPT !.futures[i].state = "running"]
    /\ UNCHANGED <<fetchVars, classified, audit, verified, resolution, judgment, extracted, pipeline>>

\* A running task returns from resolve_single_citation (lines 1272-1366) and
\* its future is resolved.
FinishTask(i) ==
    /\ batch.pc = "running"
    /\ i \in Running
    /\ LET ctx == batch.citations_to_process[i]
           fate == IF ctx.citation \in DOMAIN batch.world THEN batch.world[ctx.citation]
                   ELSE "ok"
       IN  batch' = [batch EXCEPT
                        !.futures[i] = [state |-> "done",
                                        result |-> resolve_single_citation(ctx, fate)],
                        !.overtaken = @ \/ \E j \in 1..(i - 1) :
                                               batch.futures[j].state # "done"]
    /\ UNCHANGED <<fetchVars, classified, audit, verified, resolution, judgment, extracted, pipeline>>

\* resolve_citations_only, lines 1436-1452: gather returns when every future
\* is resolved; the summary is computed and the response returned.
Respond ==
    /\ batch.pc = "running"
    /\ \A i \in DOMAIN batch.futures : batch.futures[i].state = "done"
    /\ LET resolved_citations == gather(batch.futures)
       IN  batch' = [batch EXCEPT
                        !.pc = "done",
                        !.resolved = resolved_citations,
                        !.summary = Summary(Len(batch.citations_to_process),
                                            resolved_citations)]
    /\ UNCHANGED <<fetchVars, classified, audit, verified, resolution, judgment, extracted, pipeline>>

NextBatch ==
    \/ Receive
    \/ StartTask
    \/ \E i \in DOMAIN batch.futures : FinishTask(i)
    \/ Respond

SpecBatch == InitBatch /\ [][NextBatch]_vars

\* Worker threads run, and resolve_single_citation returns (its requests
\* answer or time out).
FairSpecPool == InitPool /\ [][NextBatch]_vars /\ WF_vars(NextBatch)


\* ================================================================= parsers
\* src/scripts/parse_authority.py and src/scripts/parse_fcl_xml.py.
\*
\* An XML document is the sequence of its tokens: opening tags, closing tags,
\* runs of text, and possibly a tag cut short by the end of the content.

MaxXmlParagraphs == 2
MaxLines == 4

OpenTags == {"<akomaNtoso>", "<judgment>", "<paragraph>"}
CloseTags == {"</akomaNtoso>", "</judgment>", "</paragraph>"}
CutTag == "<par"

CloseOf(tag) ==
    CASE tag = "<akomaNtoso>" -> "</akomaNtoso>"
      [] tag = "<judgment>" -> "</judgment>"
      [] tag = "<paragraph>" -> "</paragraph>"

IsText(token) == token \notin OpenTags \cup CloseTags \cup {CutTag}

\* ET.fromstring: the content is one element, properly nested, with nothing
\* but that element in it; anything else is a ParseError.
RECURSIVE WellNested(_, _, _, _)
WellNested(tokens, i, stack, root_closed) ==
    IF i > Len(tokens) THEN root_closed /\ stack = <<>>
    ELSE LET token == tokens[i] IN
         CASE token = CutTag -> FALSE
           [] token \in OpenTags ->
                IF root_closed THEN FALSE
                ELSE WellNested(tokens, i + 1, <<token>> \o stack, FALSE)
           [] token \in CloseTags ->
                IF stack = <<>> \/ root_closed THEN FALSE
                ELSE IF CloseOf(Head(stack)) # token THEN FALSE
                ELSE WellNested(tokens, i + 1, Tail(stack), Len(stack) = 1)
           [] OTHER ->
                IF stack = <<>> THEN FALSE
                ELSE WellNested(tokens, i + 1, stack, root_closed)

fromstring_ok(xml_content) == WellNested(xml_content, 1, <<>>, FALSE)

\* The position of the closing tag of the element opened at position i of a
\* well-formed document.
RECURSIVE EndOf(_, _, _)
EndOf(tokens, i, depth) ==
    LET token == tokens[i]
        d == IF token \in OpenTags THEN depth + 1
             ELSE IF token \in CloseTags THEN depth - 1 ELSE depth
    IN IF d = 0 THEN i ELSE EndOf(tokens, i + 1, d)

\* extract_text_recursive: the text of an element and of everything in it,
\* in document order.
extract_text_recursive(tokens, i) ==
    SelectSeq(SubSeq(tokens, i, EndOf(tokens, i, 0)), IsText)

\* root.find(".//akn:judgment"): the first descendant of the root with that
\* tag, 0 for None. The root itself is not among its descendants.
find_descendant(tokens, tag) ==
    LET found == {i \in 2..Len(tokens) : tokens[i] = tag} IN
    IF found = {} THEN 0 ELSE CHOOSE i \in found : \A j \in found : i <= j

\* judgment.findall(".//akn:paragraph"), in document order.
findall_paragraphs(tokens, i) ==
    LET last == EndOf(tokens, i, 0)
        RECURSIVE From(_)
        From(k) == IF k > last THEN <<>>
                   ELSE IF tokens[k] = "<paragraph>" THEN <<k>> \o From(k + 1)
                   ELSE From(k + 1)
    IN From(i + 1)

\* The paragraphs of the judgment element: those with text, numbered by the
\* counter (the documents carry no eId).
RECURSIVE xml_paragraphs(_, _, _)
xml_paragraphs(tokens, paras, para_counter) ==
    IF paras = <<>> THEN <<>>
    ELSE LET para_text == extract_text_recursive(tokens, Head(paras)) IN
         IF para_text # <<>>
         THEN <<[para_num |-> para_counter, text |-> para_text]>>
              \o xml_paragraphs(tokens, Tail(paras), para_counter + 1)
         ELSE xml_paragraphs(tokens, Tail(paras), para_counter)

\* What the parser of parse_authority.py returns when ET.fromstring fails.
xml_error_result(xml_content) ==
    [raised |-> FALSE, paragraphs |-> <<>>, full_text |-> <<>>,
     warnings |-> <<"XML parse error">>, error |-> ""]

\* What the parser of parse_fcl_xml.py returns when ET.fromstring fails: a
\* record of parse_status, error and source_url, with no paragraphs, no text
\* and no warnings in it.
fcl_error_result(xml_content) ==
    [raised |-> FALSE, paragraphs |-> <<>>, full_text |-> <<>>,
     warnings |-> <<>>, error |-> "XML parse error"]

\* parse_fcl_xml of either module.
parse_fcl_xml(module, xml_content) ==
    IF ~fromstring_ok(xml_content)
    THEN IF module = "parse_authority" THEN xml_error_result(xml_content)
         ELSE fcl_error_result(xml_content)
    ELSE LET j == find_descendant(xml_content, "<judgment>")
             paragraphs == IF j = 0 THEN <<>>
                           ELSE xml_paragraphs(xml_content,
                                               findall_paragraphs(xml_content, j), 1)
             body_text == IF j = 0 THEN <<>> ELSE extract_text_recursive(xml_content, j)
         IN [raised |-> FALSE, paragraphs |-> paragraphs,
             full_text |-> IF body_text # <<>> THEN body_text
                           ELSE extract_text_recursive(xml_content, 1),
             warnings |-> <<>>, error |-> ""]

\* An HTML document is the sequence of the lines that soup.get_text gives, one
\* for each <p> element and one blank line for each gap between blocks; a line
\* is known by what it holds and by its length once stripped.
BlankLine == [kind |-> "blank", len |-> 0]
MarkerLine == [kind |-> "marker", len |-> 40]
NumberedLine == [kind |-> "numbered", len |-> 50]
ShortLine == [kind |-> "text", len |-> 60]
HundredLine == [kind |-> "text", len |-> 100]
LongLine == [kind |-> "text", len |-> 101]
HtmlLines == {BlankLine, MarkerLine, NumberedLine, ShortLine, HundredLine, LongLine}

RECURSIVE SumLen(_)
SumLen(para) == IF para = <<>> THEN 0 ELSE Head(para).len + SumLen(Tail(para))

\* len(" ".join(current_para)).
joined_len(para) == IF para = <<>> THEN 0 ELSE SumLen(para) + Len(para) - 1

IsBlank(line) == line.kind = "blank"
NotBlank(line) == ~IsBlank(line)

\* The <p> elements whose text starts with [N].
RECURSIVE numbered_paragraphs(_, _)
numbered_paragraphs(lines, n) ==
    IF lines = <<>> THEN <<>>
    ELSE IF Head(lines).kind = "numbered"
         THEN <<[para_num |-> n, text |-> <<Head(lines)>>]>>
              \o numbered_paragraphs(Tail(lines), n + 1)
         ELSE numbered_paragraphs(Tail(lines), n)

\* "\n".join(line.strip() for line in full_text.splitlines() if line.strip())
clean_whitespace(lines) == SelectSeq(lines, NotBlank)

\* The index of the first line with a judgment marker, the first line if
\* there is none.
start_idx(lines) ==
    LET marked == {i \in 1..Len(lines) : lines[i].kind = "marker"} IN
    IF marked = {} THEN 1 ELSE CHOOSE i \in marked : \A j \in marked : i <= j

\* len(para_text) > 100
substantial(para) == joined_len(para) > 100

\* The loop that groups lines[start_idx:] into paragraphs, with the last
\* paragraph closed after the loop.
RECURSIVE group_lines(_, _, _)
group_lines(lines, current_para, para_num) ==
    IF lines = <<>>
    THEN IF current_para # <<>> /\ substantial(current_para)
         THEN <<[para_num |-> para_num, text |-> current_para]>>
         ELSE <<>>
    ELSE IF IsBlank(Head(lines))
         THEN IF current_para # <<>> /\ substantial(current_para)
              THEN <<[para_num |-> para_num, text |-> current_para]>>
                   \o group_lines(Tail(lines), <<>>, para_num + 1)
              ELSE group_lines(Tail(lines), <<>>, para_num)
         ELSE group_lines(Tail(lines), Append(current_para, Head(lines)), para_num)

parse_bailii_html(html_content) ==
    LET numbered == numbered_paragraphs(html_content, 1)
        full_text == clean_whitespace(html_content)
        lines == IF full_text = <<>> THEN <<BlankLine>> ELSE full_text
        paragraphs ==
            IF numbered # <<>> THEN numbered
            ELSE group_lines(SubSeq(lines, start_idx(lines), Len(lines)), <<>>, 1)
    IN [raised |-> FALSE, paragraphs |-> paragraphs, full_text |-> full_text,
        warnings |-> <<>>, error |-> ""]

\* The well-formed documents: a judgment of n paragraphs, and a document with
\* no judgment element.
XmlTexts == <<"one", "two", "three">>

RECURSIVE XmlParas(_)
XmlParas(n) ==
    IF n = 0 THEN <<>>
    ELSE XmlParas(n - 1) \o <<"<paragraph>", XmlTexts[n], "</paragraph>">>

XmlJudgment(n) ==
    <<"<akomaNtoso>", "<judgment>">> \o XmlParas(n) \o <<"</judgment>", "</akomaNtoso>">>

XmlPlain == <<"<akomaNtoso>", "one", "</akomaNtoso>">>

\* Every document, every document cut short between two tokens, and every
\* document cut short in the middle of a tag.
XmlContents ==
    LET whole == {XmlJudgment(n) : n \in 0..MaxXmlParagraphs} \cup {XmlPlain}
        cut == UNION {{SubSeq(d, 1, k) : k \in 0..Len(d)} : d \in whole}
    IN cut \cup {Append(c, CutTag) : c \in cut}

HtmlContents == UNION {[1..n -> HtmlLines] : n \in 0..MaxLines}

InitOthersParse ==
    /\ InitFetch
    /\ classified = IdleClassified
    /\ audit = IdleAudit
    /\ verified = IdleVerified
    /\ resolution = IdleResolution
    /\ batch = IdleBatch
    /\ extracted = IdleExtracted
    /\ pipeline = IdlePipeline

InitParse ==
    /\ InitOthersParse
    /\ \/ \E module \in {"parse_authority", "parse_fcl_xml"}, content \in XmlContents :
             judgment = [pc |-> "ready", source_type |-> "fcl_xml", module |-> module,
                         content |-> content]
       \/ \E content \in HtmlContents :
             judgment = [pc |-> "ready", source_type |-> "bailii",
                         module |-> "parse_authority", content |-> content]

\* parse_fcl_xml(content).
ParseXml ==
    /\ judgment.pc = "ready"
    /\ judgment.source_type = "fcl_xml"
    /\ judgment' = [pc |-> "done", source_type |-> "fcl_xml", module |-> judgment.module,
                    content |-> judgment.content,
                    result |-> parse_fcl_xml(judgment.module, judgment.content)]
    /\ UNCHANGED <<fetchVars, classified, audit, verified, resolution, batch, extracted,
                   pipeline>>

\* parse_bailii_html(content).
ParseHtml ==
    /\ judgment.pc = "ready"
    /\ judgment.source_type = "bailii"
    /\ judgment' = [pc |-> "done", source_type |-> "bailii", module |-> judgment.module,
                    content |-> judgment.content,
                    result |-> parse_bailii_html(judgment.content)]
    /\ UNCHANGED <<fetchVars, classified, audit, verified, resolution, batch, extracted,
                   pipeline>>

NextParse == ParseXml \/ ParseHtml

SpecParse == InitParse /\ [][NextParse]_vars

\* ================================================================= text extraction
\* src/scripts/extract_text.py, extract_text_from_document.

valid_types == {"pdf", "html", "txt"}
DocTypes == valid_types \cup {"invalid", "docx", ""}
DocIds == {"doc_1", "doc_2"}

validate_document_type_Any(doc_type) == TRUE

\* validate_document_type(doc_type), as a boolean.
validate_document_type(doc_type) == doc_type \in valid_types

\* The extractor of a document type: the exception it raises, "" if it
\* returns the text.
extract_text_from(doc_type, readable, has_fitz, has_bs4) ==
    CASE doc_type = "pdf" ->
            IF ~has_fitz THEN "ImportError"
            ELSE IF readable THEN "" ELSE "Exception"
      [] doc_type = "html" ->
            IF ~has_bs4 THEN "ImportError"
            ELSE IF readable THEN "" ELSE "Exception"
      [] doc_type = "txt" -> IF readable THEN "" ELSE "Exception"
      [] OTHER -> "ValueError"

InitOthersExtract ==
    /\ InitFetch
    /\ classified = IdleClassified
    /\ audit = IdleAudit
    /\ verified = IdleVerified
    /\ resolution = IdleResolution
    /\ batch = IdleBatch
    /\ judgment = IdleJudgment
    /\ pipeline = IdlePipeline

\* A call of extract_text_from_document: its arguments, the document on disk,
\* the libraries installed and the text.json file of the cache.
InitExtract ==
    /\ InitOthersExtract
    /\ \E doc_id \in DocIds, doc_type \in DocTypes, exists \in BOOLEAN,
          readable \in BOOLEAN, has_fitz \in BOOLEAN, has_bs4 \in BOOLEAN,
          text_json \in {"absent", "old"} :
          extracted = [pc |-> "validate", doc_id |-> doc_id, doc_type |-> doc_type,
                       exists |-> exists, readable |-> exists /\ readable,
                       has_fitz |-> has_fitz, has_bs4 |-> has_bs4,
                       text_json0 |-> text_json, text_json |-> text_json,
                       steps |-> <<>>, exception |-> ""]

Raise(exception, step) ==
    extracted' = [extracted EXCEPT !.pc = "raised", !.exception = exception,
                                   !.steps = Append(@, step)]

Proceed(pc, step) ==
    extracted' = [extracted EXCEPT !.pc = pc, !.steps = Append(@, step)]

othersExtract == <<fetchVars, classified, audit, verified, resolution, batch, judgment, pipeline>>

\* validation = validate_document_type(doc_type)
ValidateType ==
    /\ extracted.pc = "validate"
    /\ IF validate_document_type(extracted.doc_type)
       THEN Proceed("exists", "validate_document_type")
       ELSE Raise("ValueError", "validate_document_type")
    /\ UNCHANGED othersExtract

\* if not doc_path.exists()
CheckExists ==
    /\ extracted.pc = "exists"
    /\ IF extracted.exists
       THEN Proceed("extract", "exists")
       ELSE Raise("FileNotFoundError", "exists")
    /\ UNCHANGED othersExtract

\* Extract based on type.
ExtractText ==
    /\ extracted.pc = "extract"
    /\ LET e == extract_text_from(extracted.doc_type, extracted.readable,
                                  extracted.has_fitz, extracted.has_bs4) IN
       IF e = "" THEN Proceed("write", "extract") ELSE Raise(e, "extract")
    /\ UNCHANGED othersExtract

\* write_cache_json(job_id, f"{doc_id}.text.json", result)
WriteCache ==
    /\ extracted.pc = "write"
    /\ extracted' = [extracted EXCEPT !.pc = "returned", !.text_json = extracted.doc_id,
                                      !.steps = Append(@, "write_cache_json")]
    /\ UNCHANGED othersExtract

NextExtract == ValidateType \/ CheckExists \/ ExtractText \/ WriteCache

SpecExtract == InitExtract /\ [][NextExtract]_vars

\* ================================================================= orchestrator
\* src/scripts/orchestrate.py: main and its three phases. Every script that a
\* phase runs is a step with an exit code; the files the scripts leave behind
\* are the state the next steps read.

MaxDocs == 2
MaxPairs == 3

PipelineUrls == {"A", "B"}

\* The body an archive serves at a URL.
BodyOf(url) == IF url = "A" THEN "a" ELSE "b"

PipelineBodies == {BodyOf(u) : u \in PipelineUrls}

\* What happens to a citation on its way through the retrieval phase.
CitationFates == {"ok", "resolve_fails", "unresolvable", "fetch_fails", "parse_fails"}

PipelineCitation == [url : PipelineUrls, fate : CitationFates]

Phase1Steps(n_docs) ==
    [i \in 1..(2 * n_docs + 1) |->
        IF i <= n_docs THEN "extract_text"
        ELSE IF i <= 2 * n_docs THEN "extract_citations" ELSE "build_claims"]

NewPipeline(input_exists, valid, n_docs, fail_step, citations) ==
    [pc |-> "main", input_exists |-> input_exists, valid |-> valid, n_docs |-> n_docs,
     fail_step |-> fail_step, citations |-> citations, i |-> 1, steps |-> <<>>,
     resolutions |-> [k \in 1..Len(citations) |-> "none"], remaining |-> {},
     sources |-> [b \in PipelineBodies |-> 0], clock |-> 0,
     authorities |-> [u \in PipelineUrls |-> "none"],
     verifications |-> [k \in 1..Len(citations) |-> [authority_file |-> "none",
                                                     authority |-> "none"]],
     reports |-> FALSE, exit_code |-> -1]

InitOthersPipeline ==
    /\ InitFetch
    /\ classified = IdleClassified
    /\ audit = IdleAudit
    /\ verified = IdleVerified
    /\ resolution = IdleResolution
    /\ batch = IdleBatch
    /\ judgment = IdleJudgment
    /\ extracted = IdleExtracted

\* Jobs whose input is missing or invalid or whose extraction fails at some
\* step, and jobs that reach retrieval with every list of citations.
InitPipeline ==
    /\ InitOthersPipeline
    /\ \/ \E input_exists \in BOOLEAN, valid \in BOOLEAN, n_docs \in 1..MaxDocs :
          \E fail_step \in 0..(2 * n_docs + 1) :
             /\ ~(input_exists /\ valid /\ fail_step = 0)
             /\ pipeline = NewPipeline(input_exists, valid, n_docs, fail_step,
                                       <<[url |-> "A", fate |-> "ok"]>>)
       \/ \E n \in 1..MaxPairs : \E citations \in [1..n -> PipelineCitation] :
             pipeline = NewPipeline(TRUE, TRUE, 1, 0, citations)

othersPipeline == <<fetchVars, classified, audit, verified, resolution, batch, judgment, extracted>>

\* What main does with the verdict of phase 1.
after_phase1_Ignore(ok) == "phase2_resolve"

after_phase1(ok) == IF ok THEN "phase2_resolve" ELSE "exit"

\* main up to the first phase: the input file exists and validates.
Main ==
    /\ pipeline.pc = "main"
    /\ IF pipeline.input_exists /\ pipeline.valid
       THEN pipeline' = [pipeline EXCEPT !.pc = "phase1", !.i = 1,
                                         !.steps = Append(@, "validate_input_job")]
       ELSE pipeline' = [pipeline EXCEPT !.pc = "exit", !.exit_code = 1,
                            !.steps = IF pipeline.input_exists
                                      THEN Append(@, "validate_input_job") ELSE @]
    /\ UNCHANGED othersPipeline

\* One script of phase 1: a non-zero exit code makes the phase return False.
Phase1Step ==
    /\ pipeline.pc = "phase1"
    /\ LET all == Phase1Steps(pipeline.n_docs)
           ok == pipeline.i # pipeline.fail_step
           last == pipeline.i = Len(all)
           next == IF ok /\ ~last THEN "phase1" ELSE after_phase1(ok)
       IN pipeline' = [pipeline EXCEPT
              !.steps = Append(@, all[pipeline.i]),
              !.i = IF ok /\ ~last THEN @ + 1 ELSE 1,
              !.pc = next,
              !.exit_code = IF next = "exit" THEN 1 ELSE @]
    /\ UNCHANGED othersPipeline

\* public_resolve.py on the next citation: on success it leaves a resolution
\* file; a failure is skipped.
Phase2Resolve ==
    /\ pipeline.pc = "phase2_resolve"
    /\ LET k == pipeline.i
           c == pipeline.citations[k]
           last == k = Len(pipeline.citations)
           written == [pipeline.resolutions EXCEPT
                          ![k] = IF c.fate = "resolve_fails" THEN @
                                 ELSE IF c.fate = "unresolvable" THEN "unresolvable"
                                 ELSE "resolved"]
       IN pipeline' = [pipeline EXCEPT
              !.steps = Append(@, "public_resolve"),
              !.resolutions = written,
              !.i = IF last THEN 1 ELSE @ + 1,
              !.pc = IF last THEN "phase2_fetch" ELSE @,
              !.remaining = IF last THEN {j \in 1..Len(written) : written[j] # "none"}
                            ELSE @]
    /\ UNCHANGED othersPipeline

\* max(all_files, key=lambda p: p.stat().st_mtime)
latest_file(sources, body) ==
    CHOOSE b \in PipelineBodies : sources[b] > 0 /\ \A o \in PipelineBodies : sources[o] <= sources[b]

\* The next resolution file, in the order the directory lists them: fetch its
\* first candidate and parse the most recent file of the sources directory.
Phase2FetchParse ==
    /\ pipeline.pc = "phase2_fetch"
    /\ pipeline.remaining # {}
    /\ \E k \in pipeline.remaining :
          LET c == pipeline.citations[k]
              body == BodyOf(c.url)
              rest == pipeline.remaining \ {k}
              skipped == pipeline.resolutions[k] # "resolved"
              fetched == ~skipped /\ c.fate # "fetch_fails"
              cached == pipeline.sources[body] > 0
              sources == IF fetched /\ ~cached
                         THEN [pipeline.sources EXCEPT ![body] = pipeline.clock + 1]
                         ELSE pipeline.sources
              parsed == fetched /\ c.fate # "parse_fails"
          IN pipeline' = [pipeline EXCEPT
                 !.remaining = rest,
                 !.steps = @ \o (IF skipped THEN <<>>
                                 ELSE IF ~fetched THEN <<"fetch_url">>
                                 ELSE <<"fetch_url", "parse_authority">>),
                 !.sources = sources,
                 !.clock = IF fetched /\ ~cached THEN @ + 1 ELSE @,
                 !.authorities = IF parsed
                                 THEN [@ EXCEPT ![c.url] = latest_file(sources, body)]
                                 ELSE @]
    /\ UNCHANGED othersPipeline

\* phase2_retrieval returns True.
Phase2Done ==
    /\ pipeline.pc = "phase2_fetch"
    /\ pipeline.remaining = {}
    /\ pipeline' = [pipeline EXCEPT !.pc = "phase3", !.i = 1]
    /\ UNCHANGED othersPipeline

\* authority_files[0], among the parsed files in the order the directory
\* lists them.
authority_file(authorities, url) == {u \in PipelineUrls : authorities[u] # "none"}

\* verify_claim.py on the next claim-citation pair.
Phase3Verify ==
    /\ pipeline.pc = "phase3"
    /\ pipeline.i <= Len(pipeline.citations)
    /\ LET k == pipeline.i
           parsed_files == authority_file(pipeline.authorities, pipeline.citations[k].url)
       IN \/ /\ parsed_files = {}
             /\ pipeline' = [pipeline EXCEPT !.i = @ + 1]
          \/ \E f \in parsed_files :
                pipeline' = [pipeline EXCEPT
                    !.i = @ + 1,
                    !.steps = Append(@, "verify_claim"),
                    !.verifications[k] = [authority_file |-> f,
                                          authority |-> pipeline.authorities[f]]]
    /\ UNCHANGED othersPipeline

\* generate_reports, and main returns 0.
GenerateReports ==
    /\ pipeline.pc = "phase3"
    /\ pipeline.i > Len(pipeline.citations)
    /\ pipeline' = [pipeline EXCEPT !.pc = "exit", !.exit_code = 0, !.reports = TRUE,
                                    !.steps = Append(@, "generate_reports")]
    /\ UNCHANGED othersPipeline

NextPipeline ==
    \/ Main
    \/ Phase1Step
    \/ Phase2Resolve
    \/ Phase2FetchParse
    \/ Phase2Done
    \/ Phase3Verify
    \/ GenerateReports

SpecPipeline == InitPipeline /\ [][NextPipeline]_vars

\* ================================================================= claims
Successful(r) == r.fetch_status \in {"success", "cached"}
IsUrlFetch(r) == r.fetcher = "fetch_and_cache_url"
Quiescent == \A w \in Workers : frame[w].pc = "idle"

\* The specification's domain allow-list: the two archives and their www. variants.
AllowedHosts ==
    {HostFcl, <<"www">> \o HostFcl, HostBailii, <<"www">> \o HostBailii}

\* C1: a call of fetch_and_cache_url on a URL whose host is not allow-listed
\* issues no HTTP request and returns an error result.
C1_DomainRestriction ==
    /\ \A w \in Workers :
          (frame[w].pc # "idle" /\ frame[w].url.host \notin AllowedHosts)
              => frame[w].gets = 0
    /\ \A i \in 1..Len(log) :
          (IsUrlFetch(log[i]) /\ log[i].url.host \notin AllowedHosts)
              => /\ log[i].gets = 0
                 /\ log[i].exc = ""
                 /\ log[i].fetch_status = "error"

\* C2: of two successive successful fetches from the same source (the second
\* called after the first returned), the second proceeds to its request at
\* least the source's interval after the first did.
C2_SuccessiveFetchesSpaced ==
    \A i, j \in 1..Len(log) :
        ( /\ i < j
          /\ log[j].prior >= i
          /\ IsUrlFetch(log[i]) /\ IsUrlFetch(log[j])
          /\ Successful(log[i]) /\ Successful(log[j])
          /\ log[i].source = log[j].source )
        => log[j].t0 - log[i].t0 >= SOURCE_RATE_LIMITS[log[i].source]

\* Within the server process successive fetches from one source are spaced.
ServerSuccessiveSpaced ==
    \A i, j \in 1..Len(log) :
        ( /\ i < j
          /\ log[j].prior >= i
          /\ log[i].entry = "server" /\ log[j].entry = "server"
          /\ log[i].t0 # -1 /\ log[j].t0 # -1
          /\ log[i].source = log[j].source )
        => log[j].t0 - log[i].t0 >= SOURCE_RATE_LIMITS[log[i].source]

Apart(r1, r2) ==
    ( /\ r1.entry = "server" /\ r2.entry = "server"
      /\ r1.t0 # -1 /\ r2.t0 # -1
      /\ r1.source = r2.source )
    => \/ r1.t0 - r2.t0 >= SOURCE_RATE_LIMITS[r1.source]
       \/ r2.t0 - r1.t0 >= SOURCE_RATE_LIMITS[r1.source]

\* C3: the instants at which any two calls made by threads of the server
\* process proceed to the HTTP request for the same source are at least the
\* source's interval apart, in every interleaving.
C3_ConcurrentFetchesSpaced ==
    /\ \A w1, w2 \in Workers : w1 # w2 => Apart(frame[w1], frame[w2])
    /\ \A w \in Workers, i \in 1..Len(log) : Apart(frame[w], log[i])
    /\ \A i, j \in 1..Len(log) : i # j => Apart(log[i], log[j])

Retriable == {"Timeout", "RequestException", "429"}

AttemptsBounded(r) ==
    /\ r.gets <= 3
    /\ r.retried \subseteq Retriable
    /\ r.gets > 1 => r.retried # {}

\* C4: a call of fetch_and_cache_url issues at most 3 GETs; every attempt
\* that was followed by another ended in a timeout, a network error or a 429,
\* and a call is over once an attempt ends in a 404 or a 500.
C4_RetryPolicy ==
    /\ \A w \in Workers :
          /\ AttemptsBounded(frame[w])
          /\ frame[w].pc # "idle" => frame[w].last_outcome \notin {"404", "500"}
          /\ frame[w].pc = "get" => frame[w].gets < 3
    /\ \A i \in 1..Len(log) : IsUrlFetch(log[i]) => AttemptsBounded(log[i])

\* A call that was answered 429 twice, backed off 1000 and 2000 ms, and
\* ended on its third attempt with a 500.
C4_Witness ==
    \E i \in 1..Len(log) :
        /\ log[i].gets = 3
        /\ log[i].retried = {"429"}
        /\ log[i].last_outcome = "500"
        /\ log[i].fetch_status = "error"

C7_ExistingFileNotRewritten ==
    \A i \in 1..Len(log) :
        (~log[i].force_refetch /\ log[i].existed)
        => /\ log[i].fetch_status = "cached"
           /\ ~log[i].wrote_body
           /\ ~log[i].wrote_meta

\* C8: of two overlapping calls of fetch_and_cache_url that received the same
\* body for the same file, exactly one wrote the body file and neither raised.
C8_ConcurrentSameBody ==
    \A i, j \in 1..Len(log) :
        ( /\ i < j
          /\ log[j].prior < i
          /\ IsUrlFetch(log[i]) /\ IsUrlFetch(log[j])
          /\ ~log[i].force_refetch /\ ~log[j].force_refetch
          /\ log[i].body # <<>>
          /\ log[i].body = log[j].body /\ log[i].ext = log[j].ext )
        => /\ log[i].exc = "" /\ log[j].exc = ""
           /\ log[i].wrote_body # log[j].wrote_body

\* C9: classify_hallucination_type answers Fabricated Case & Citation only
\* when the case was not retrieved and the resolution status is not_found
\* or unresolved.
C9_FabricatedOnlyIfNotFound ==
    (classified.done /\ classified.result.lee_type_name = Fabricated)
    => /\ ~classified.case_retrieved
       /\ classified.resolution_status \in {"not_found", "unresolved"}

\* C10: every citation result of run_audit_pipeline labelled Fabricated Case &
\* Citation has case_retrieved false and a resolution status other than
\* resolved.
C10_AuditFabricatedOnlyUnresolved ==
    \A i \in 1..Len(audit.results) :
        audit.results[i].hallucination_type_name = Fabricated
        => /\ ~audit.results[i].case_retrieved
           /\ audit.results[i].resolution_status # "resolved"

\* C11 as stated: classify_hallucination_type gives no category to outcome
\* supported, and the Needs Manual Review category to outcome needs_review
\* with the case retrieved.
C11_ReviewIsManualReview ==
    classified.done =>
        /\ classified.outcome = "supported" => classified.result = NoLee
        /\ (classified.outcome = "needs_review" /\ classified.case_retrieved)
              => classified.result = LeeReview

\* C11 amended: classify_hallucination_type gives no category to outcome
\* supported, whatever the resolution status and the retrieved flag, and no
\* category either to outcome needs_review with the case retrieved; the Needs
\* Manual Review category is given exactly to a retrieved case with outcome
\* unclear or contradicted.
C11_ReviewIsNoCategory ==
    classified.done =>
        /\ classified.outcome = "supported" => classified.result = NoLee
        /\ (classified.outcome = "needs_review" /\ classified.case_retrieved)
              => classified.result = NoLee
        /\ classified.result = LeeReview
              <=> (classified.case_retrieved
                   /\ classified.outcome \in {"unclear", "contradicted"})

\* The classifier has answered for a retrieved case in need of review.
C11_Witness ==
    /\ classified.done
    /\ classified.outcome = "needs_review"
    /\ classified.case_retrieved
    /\ classified.result = NoLee

\* The claim text occurs in the full text once both are lower-cased, stated
\* on the characters: some stretch of the full text spells the claim text up
\* to the case of the letter D.
SameLetter(c, d) == c = d \/ {c, d} = {"D", "d"}
ClaimOccursInFullText ==
    LET needle == verified.claim_text
        hay == verified.parsed_authority.full_text
    IN  \E i \in 0..(Len(hay) - Len(needle)) :
            \A k \in 1..Len(needle) : SameLetter(hay[i + k], needle[k])

\* C12: when the lower-cased claim text is a substring of the lower-cased
\* full text, verify_claim_against_authority answers supported with
\* confidence 0.95 and method exact_match.
C12_ExactMatchSupported ==
    (verified.pc = "done" /\ ClaimOccursInFullText)
    => /\ verified.result.verification_outcome = "supported"
       /\ verified.result.confidence = 95
       /\ verified.result.confidence >= 90
       /\ verified.result.method = "exact_match"

\* The verifier has answered for a claim that occurs inside a longer full
\* text in a different case.
C12_Witness ==
    /\ verified.pc = "done"
    /\ ClaimOccursInFullText
    /\ verified.claim_text # <<>>
    /\ lower(verified.claim_text) # verified.claim_text
    /\ Len(verified.parsed_authority.full_text) > Len(verified.claim_text)
    /\ ~Contains_AtStart(lower(verified.claim_text), lower(verified.parsed_authority.full_text))
    /\ verified.result.method = "exact_match"

LowOverlap ==
    /\ ~ClaimOccursInFullText
    /\ ~AtLeast(calculate_keyword_overlap(verified.claim_text,
                                          verified.parsed_authority.full_text), 30)
    /\ \A i \in 1..Len(verified.parsed_authority.paragraphs) :
          ~AtLeast(calculate_keyword_overlap(verified.claim_text,
                                             verified.parsed_authority.paragraphs[i]), 30)

\* C13: when the claim is not an exact substring and the overall overlap and
\* the best paragraph overlap are below 0.3, the verifier answers needs_review
\* only if the judgment was retrieved with non-trivial text, and unverifiable
\* otherwise.
C13_LowOverlapOutcome ==
    (verified.pc = "done" /\ LowOverlap)
    => /\ verified.result.verification_outcome = "needs_review"
             => verified.result.case_retrieved
       /\ ~verified.result.case_retrieved
             => verified.result.verification_outcome = "unverifiable"

\* With low overlap and the judgment retrieved the verifier answers needs_review.
LowOverlapRetrievedNeedsReview ==
    (verified.pc = "done" /\ LowOverlap /\ verified.result.case_retrieved)
    => verified.result.verification_outcome = "needs_review"

EvidenceRatio(i) ==
    calculate_keyword_overlap(verified.claim_text,
                              verified.result.matching_paragraphs[i].text)

EvidenceWellFormed ==
    LET evidence == verified.result.matching_paragraphs
    IN  /\ Len(evidence) <= 3
        /\ \A i \in 1..Len(evidence) : AtLeast(EvidenceRatio(i), 30)
        /\ \A i \in 1..Len(evidence), j \in 1..Len(evidence) :
              i < j => EvidenceRatio(i).num * EvidenceRatio(j).den
                          >= EvidenceRatio(j).num * EvidenceRatio(i).den

\* C14: every paragraph returned as evidence has a keyword-overlap ratio with
\* the claim of at least 0.3, the evidence is in non-increasing ratio order
\* and has at most 3 entries, from the API pipeline and from the CLI alike.
C14_EvidenceAboveThreshold ==
    verified.pc = "done" => EvidenceWellFormed

\* Called from the CLI with its default threshold the evidence is well formed.
CliEvidenceAboveThreshold ==
    (verified.pc = "done" /\ verified.entry = "cli") => EvidenceWellFormed

\* ------------------------------------------------------------- resolver
UnknownForm(citation) ==
    /\ citation.neutral \notin Dialects
    /\ citation.reporter \notin TRADITIONAL_REPORT_PATTERNS

Resolved == resolution.pc = "done"

\* C15: a citation text that matches neither a neutral-citation pattern nor a
\* reporter pattern is resolved to status unresolvable with an empty
\* candidate list, whatever the archives answer.
C15_UnknownUnresolvable ==
    Resolved /\ UnknownForm(resolution.citation)
        => /\ resolution.resolution_status = "unresolvable"
           /\ resolution.candidate_urls = <<>>

\* C15, amended: a citation text that matches neither kind of pattern and
\* from which no search terms can be derived (neither from the case name nor
\* from the text) is resolved to status unresolvable with an empty candidate
\* list, and no archive is asked.
C15_UnknownWithoutTermsUnresolvable ==
    Resolved /\ UnknownForm(resolution.citation) /\ ~resolution.citation.search_terms
        => /\ resolution.resolution_status = "unresolvable"
           /\ resolution.candidate_urls = <<>>
           /\ resolution.invoked = <<>>

C15_Witness ==
    /\ Resolved
    /\ UnknownForm(resolution.citation)
    /\ resolution.citation.case_name
    /\ ~resolution.citation.search_terms
    /\ resolution.resolution_status = "unresolvable"

Templated(c) ==
    c.resolution_method \in {"bailii_neutral_citation_direct", "fcl_neutral_citation_direct"}

\* C16: for every recognised neutral dialect the templating step puts two
\* candidates in the list, one of the primary archive (Find Case Law) and one
\* of the secondary archive (BAILII), the primary archive's first.
C16_TemplateBothArchives ==
    resolution.pc # "idle" /\ resolution.citation.neutral \in Dialects
        => LET templated == SelectSeq(resolution.candidate_urls, Templated)
           IN  /\ Len(templated) = 2
               /\ templated[1].source = "find_case_law"
               /\ templated[2].source = "bailii"

\* C17: the returned candidate list is in non-increasing order of confidence
\* (a stable sort leaves candidates of equal confidence in insertion order),
\* whatever the template match and the search results.
C17_SortedByConfidence ==
    Resolved
        => \A i, j \in DOMAIN resolution.candidate_urls :
               i < j => resolution.candidate_urls[i].confidence
                            >= resolution.candidate_urls[j].confidence

\* C18: the returned candidate list never holds two candidates with the same
\* URL, whichever strategies contributed them.
C18_NoDuplicateUrls ==
    Resolved
        => \A i, j \in DOMAIN resolution.candidate_urls :
               i # j => resolution.candidate_urls[i].url # resolution.candidate_urls[j].url

\* A search page listed the templated case page next to another one: the
\* first was dropped, the second appended.
C18_Witness ==
    /\ Resolved
    /\ Len(resolution.candidate_urls) >= 2
    /\ Templated(resolution.candidate_urls[1])
    /\ \E k \in DOMAIN resolution.traditional_candidates :
           resolution.traditional_candidates[k].url = resolution.candidate_urls[1].url

\* The specification's domain allow-list, as host names.
AllowListedHostNames ==
    {"caselaw.nationalarchives.gov.uk", "www.caselaw.nationalarchives.gov.uk",
     "bailii.org", "www.bailii.org"}

\* C19: every candidate URL of a resolution result has an allow-listed host,
\* whether it is templated, probed, the citation finder's final URL, a link
\* scraped from the search page or a link of the Atom feed.
C19_CandidateHostsAllowListed ==
    Resolved
        => \A i \in DOMAIN resolution.candidate_urls :
               resolution.candidate_urls[i].url.host \in AllowListedHostNames

Position(order, strategy) == CHOOSE k \in DOMAIN order : order[k] = strategy

\* The strategies invoked so far were invoked in the given order, and none
\* was invoked after one that returned a candidate.
InvokedInOrder(order) ==
    \A i, j \in DOMAIN resolution.invoked :
        i < j => /\ Position(order, resolution.invoked[i].strategy)
                      < Position(order, resolution.invoked[j].strategy)
                 /\ resolution.invoked[i].returned = 0

Started == resolution.pc # "idle"

\* Deterministic probing never sends more than max_courts * last_case_num
\* HEAD requests.
ProbesBounded == resolution.probes <= max_courts * last_case_num

\* When every request timed out, no strategy returned a candidate.
UnresponsiveYieldsNothing ==
    Resolved /\ resolution.unresponsive
        => /\ resolution.traditional_candidates = <<>>
           /\ \A i \in DOMAIN resolution.invoked : resolution.invoked[i].returned = 0

\* C21: provided every request answers or times out, a started resolution
\* ends; probing sends at most 3 x 19 probes; and archives that never answer
\* only make the strategies yield no candidate.
C21_Terminates ==
    /\ []ProbesBounded
    /\ []UnresponsiveYieldsNothing
    /\ (Started ~> Resolved)

\* Every request of all four strategies timed out, the probing having run
\* through all its probes, and the resolution ended without a candidate.
C21_Witness ==
    /\ Resolved
    /\ resolution.unresponsive
    /\ Len(resolution.invoked) = 4
    /\ resolution.probes = max_courts * last_case_num
    /\ resolution.resolution_status = "unresolvable"

\* ------------------------------------------------------- resolution API
Responded == batch.pc = "done"

\* C22: the response holds one entry per processed citation, entry i being
\* the resolution of citation i, in whatever order the tasks complete.
C22_ResultsInInputOrder ==
    Responded
        => /\ Len(batch.resolved) = Len(batch.citations_to_process)
           /\ \A i \in DOMAIN batch.resolved :
                  batch.resolved[i].citation = batch.citations_to_process[i].citation

\* A later task completed before an earlier one, for different citations.
C22_Witness ==
    /\ Responded
    /\ batch.overtaken
    /\ \E i, j \in DOMAIN batch.resolved :
           batch.resolved[i].citation # batch.resolved[j].citation

\* C23: never more than min(number of citations, 10) tasks run at once, and
\* every submitted task is eventually taken up by a worker: whenever tasks
\* wait in the queue, a later instant finds the queue empty.
C23_BoundedParallelism ==
    /\ [](Cardinality(Running) <=
              IF Len(batch.citations_to_process) < 10
              THEN Len(batch.citations_to_process) ELSE 10)
    /\ (Queued # {}) ~> (Queued = {})

\* Ten tasks run while another waits in the queue.
C23_Witness ==
    /\ batch.pc = "running"
    /\ Cardinality(Running) = 10
    /\ Queued # {}

FateOf(citation) ==
    IF citation \in DOMAIN batch.world THEN batch.world[citation] ELSE "ok"

\* C24: a task in which resolving, fetching or parsing failed yields a
\* not-found result that carries the error.
C24_FailuresBecomeNotFound ==
    Responded
        => \A i \in DOMAIN batch.resolved :
               FateOf(batch.resolved[i].citation)
                       \in {"resolve_raises", "fetch_raises", "fetch_error", "parse_raises"}
                   => /\ batch.resolved[i].source_type = "not_found"
                      /\ batch.resolved[i].error # ""

\* C25: a citation that is empty once trimmed has no entry in the response
\* and is not counted in the summary, from whichever list it comes.
C25_EmptyCitationDiscarded ==
    Responded
        => /\ \A i \in DOMAIN batch.resolved : batch.resolved[i].citation # <<>>
           /\ batch.summary.total = Len(batch.resolved)
           /\ \A i \in DOMAIN batch.citations_to_process :
                  batch.citations_to_process[i].citation # <<>>

\* The judgment returned for a piece of XML that is not well formed.
Malformed ==
    /\ judgment.pc = "done"
    /\ judgment.source_type = "fcl_xml"
    /\ ~fromstring_ok(judgment.content)

\* C26: when the XML content is malformed, the parser does not raise: it
\* returns a judgment with no paragraphs, a recorded parse warning, and a
\* non-empty full text obtained by fallback text extraction.
C26_MalformedXmlFallsBack ==
    Malformed =>
        /\ ~judgment.result.raised
        /\ judgment.result.paragraphs = <<>>
        /\ judgment.result.warnings # <<>>
        /\ judgment.result.full_text # <<>>

\* The blank-line-separated groups of lines of a document.
RECURSIVE Groups(_, _)
Groups(lines, current) ==
    IF lines = <<>> THEN (IF current = <<>> THEN <<>> ELSE <<current>>)
    ELSE IF Head(lines).kind = "blank"
         THEN (IF current = <<>> THEN <<>> ELSE <<current>>) \o Groups(Tail(lines), <<>>)
         ELSE Groups(Tail(lines), Append(current, Head(lines)))

AtLeastHundred(group) == joined_len(group) >= 100

HasMarker(lines) == \E i \in 1..Len(lines) : lines[i].kind = "marker"

\* The groups of at least 100 characters that follow the first marker line.
FallbackGroups(lines) ==
    SelectSeq(Groups(SubSeq(lines, start_idx(lines) + 1, Len(lines)), <<>>),
              AtLeastHundred)

Unnumbered ==
    /\ judgment.pc = "done"
    /\ judgment.source_type = "bailii"
    /\ \A i \in 1..Len(judgment.content) : judgment.content[i].kind # "numbered"
    /\ HasMarker(judgment.content)

\* C28: when the HTML parser finds no [N]-numbered paragraph, the fallback
\* produces one paragraph for each blank-line-separated group of lines of at
\* least 100 characters that follows the first line with a judgment marker,
\* numbered 1, 2, 3, ... in document order.
C28_FallbackParagraphs ==
    Unnumbered =>
        LET groups == FallbackGroups(judgment.content) IN
        judgment.result.paragraphs =
            [n \in 1..Len(groups) |-> [para_num |-> n, text |-> groups[n]]]

StepsOf(e) == {e.steps[i] : i \in 1..Len(e.steps)}

\* C27: extract_text_from_document rejects an unsupported document type with
\* ValueError and a missing document with FileNotFoundError, in both cases
\* before any extraction and without touching the text.json file of the
\* cache; the type is checked before the existence of the document.
C27_RejectsBeforeExtraction ==
    extracted.pc # "off" =>
        /\ extracted.doc_type \notin {"pdf", "html", "txt"} =>
              /\ StepsOf(extracted) \subseteq {"validate_document_type"}
              /\ extracted.text_json = extracted.text_json0
              /\ extracted.pc \in {"validate", "raised"}
              /\ extracted.pc = "raised" => extracted.exception = "ValueError"
        /\ (extracted.doc_type \in {"pdf", "html", "txt"} /\ ~extracted.exists) =>
              /\ StepsOf(extracted) \subseteq {"validate_document_type", "exists"}
              /\ extracted.text_json = extracted.text_json0
              /\ extracted.pc \in {"validate", "exists", "raised"}
              /\ extracted.pc = "raised" => extracted.exception = "FileNotFoundError"

C27_Witness ==
    /\ extracted.pc = "raised"
    /\ extracted.doc_type = "invalid"
    /\ ~extracted.exists
    /\ extracted.exception = "ValueError"
    /\ extracted.text_json0 = "old"

Verified(k) ==
    /\ pipeline.pc # "off"
    /\ k \in 1..Len(pipeline.citations)
    /\ pipeline.verifications[k].authority_file # "none"

\* C29: each claim-citation pair is verified against the authority fetched for
\* that citation's own resolved URL: the file parsed after fetching a URL is
\* the body that URL returned, and the authority passed to verify_claim is the
\* one parsed for that citation.
C29_OwnAuthority ==
    pipeline.pc # "off" =>
        /\ \A u \in {"A", "B"} :
              pipeline.authorities[u] # "none" =>
                  pipeline.authorities[u] = (IF u = "A" THEN "a" ELSE "b")
        /\ \A k \in 1..Len(pipeline.citations) :
              Verified(k) =>
                  pipeline.verifications[k].authority_file = pipeline.citations[k].url

PhaseOf(step) ==
    CASE step = "validate_input_job" -> 0
      [] step \in {"extract_text", "extract_citations", "build_claims"} -> 1
      [] step \in {"public_resolve", "fetch_url", "parse_authority"} -> 2
      [] step = "verify_claim" -> 3
      [] step = "generate_reports" -> 4

StepsIn(phase) ==
    {i \in 1..Len(pipeline.steps) : PhaseOf(pipeline.steps[i]) = phase}

\* C30: validation, extraction, retrieval and verification run strictly in
\* that order; no phase starts unless validation and every earlier phase
\* succeeded; a failing extraction step stops the pipeline with exit code 1
\* before any retrieval; a failed resolve, fetch or parse of a citation never
\* stops the pipeline; the reports are written only after all verifications.
C30_PhasesInOrder ==
    pipeline.pc # "off" =>
        /\ \A i, j \in 1..Len(pipeline.steps) :
              i < j => PhaseOf(pipeline.steps[i]) <= PhaseOf(pipeline.steps[j])
        /\ StepsIn(1) # {} => pipeline.input_exists /\ pipeline.valid
        /\ StepsIn(2) \cup StepsIn(3) \cup StepsIn(4) # {} =>
              /\ pipeline.input_exists /\ pipeline.valid /\ pipeline.fail_step = 0
              /\ Cardinality(StepsIn(1)) = 2 * pipeline.n_docs + 1
        /\ (pipeline.fail_step # 0 /\ pipeline.pc = "exit") =>
              pipeline.exit_code = 1 /\ StepsIn(2) = {}
        /\ (pipeline.pc = "exit" /\ StepsIn(2) # {}) =>
              pipeline.exit_code = 0 /\ pipeline.reports
        /\ pipeline.reports =>
              /\ pipeline.i > Len(pipeline.citations)
              /\ pipeline.steps[Len(pipeline.steps)] = "generate_reports"
        /\ StepsIn(3) # {} =>
              Cardinality({i \in StepsIn(2) : pipeline.steps[i] = "public_resolve"})
                  = Len(pipeline.citations)

C30_Witness ==
    /\ pipeline.pc = "exit"
    /\ pipeline.exit_code = 0
    /\ pipeline.reports
    /\ Len(pipeline.citations) = 3
    /\ pipeline.citations[1].fate = "resolve_fails"
    /\ pipeline.citations[2].fate = "fetch_fails"
    /\ pipeline.citations[3].fate = "ok"
    /\ StepsIn(3) # {}

====
